---- MODULE Spec2Model ----
(***************************************************************************)
(* Model of the CSV import engine of apps/records:                         *)
(*   services/csv_parser.py  DefaultCSVParser (profile and legacy mode)    *)
(*   models.py               CSVFormatProfile.clean (profile validation)   *)
(*   admin.py                the admin site: profiles, preview, uploads    *)
(*                                                                         *)
(* Text is modelled as a sequence of one-character strings, so that        *)
(* splitting, trimming, case folding and number/date parsing are computed  *)
(* character by character as the Python code does.  The characters are     *)
(* those of Latin-1 (U+0000 to U+00FF); strptime is that of the C locale   *)
(* with the time zone UTC.                                                 *)
(***************************************************************************)
EXTENDS Integers, Sequences, FiniteSets, TLC

VARIABLES
    parsers,        \* parser id -> the DefaultCSVParser object ([profile |-> ...])
    built,          \* the profile both parsers were constructed with
    file_content,   \* argument of the latest parse() call (None before any call)
    outcome,        \* what the latest parse() call returned or raised
    calls,          \* number of parse() calls made so far
    candidate,      \* the CSVFormatProfile being edited in the admin form
    verdict,        \* result of the latest clean() of candidate
    edits,          \* number of edits made to a profile
    table,          \* the stored CSVFormatProfile rows, by primary key
    request,        \* the request to the admin site served by the latest step
    response,       \* what the admin site answered to it (NoResponse: not yet)
    pending,        \* the duplication being carried out: the instances read
                    \* from storage and the number of them saved so far
    stored          \* the database rows of CSVUpload, SalesRecord and PurchaseRecord

vars ==
    <<parsers, built, file_content, outcome, calls, candidate, verdict, edits,
      table, request, response, pending, stored>>

parseVars == <<parsers, built, file_content, outcome, calls>>
cleanVars == <<candidate, verdict, edits>>
adminVars == <<table, request, response, pending, stored>>

(***************************************************************************)
(* Characters and Python str methods                                       *)
(***************************************************************************)
AsciiDigits == <<"0", "1", "2", "3", "4", "5", "6", "7", "8", "9">>
UpperLetters == <<"A", "B", "C", "D", "E", "F", "G", "H", "I", "J", "K", "L", "M",
                  "N", "O", "P", "Q", "R", "S", "T", "U", "V", "W", "X", "Y", "Z">>
LowerLetters == <<"a", "b", "c", "d", "e", "f", "g", "h", "i", "j", "k", "l", "m",
                  "n", "o", "p", "q", "r", "s", "t", "u", "v", "w", "x", "y", "z">>

Range(s) == {s[i] : i \in 1..Len(s)}

DigitSet == Range(AsciiDigits)
UpperSet == Range(UpperLetters)
LowerSet == Range(LowerLetters)
IsAsciiDigit(c) == c \in DigitSet
IsUpper(c) == c \in UpperSet
IsAlpha(c) == IsUpper(c) \/ c \in LowerSet
\* str.isspace(): the whitespace str.strip() removes and \s matches: tab, line
\* feed, vertical tab, form feed, carriage return, the separators U+001C to
\* U+001F, space, next line (U+0085) and no-break space (U+00A0)
Whitespace == {"\t", "\n", "", "\f", "\r", "", "", "", "", " ", "", " "}
IsSpace(c) == c \in Whitespace
\* the whitespace int() skips: the separators U+001C to U+001F are not among it
IntWhitespace == Whitespace \ {"", "", "", ""}

\* the cased letters of Latin-1 beyond A-Z: U+00C0 to U+00DE without the
\* multiplication sign, and their lower-case forms U+00E0 to U+00FE
UpperLatin == <<"À", "Á", "Â", "Ã", "Ä", "Å", "Æ", "Ç", "È", "É", "Ê", "Ë", "Ì", "Í", "Î",
                "Ï", "Ð", "Ñ", "Ò", "Ó", "Ô", "Õ", "Ö", "Ø", "Ù", "Ú", "Û", "Ü", "Ý", "Þ">>
LowerLatin == <<"à", "á", "â", "ã", "ä", "å", "æ", "ç", "è", "é", "ê", "ë", "ì", "í", "î",
                "ï", "ð", "ñ", "ò", "ó", "ô", "õ", "ö", "ø", "ù", "ú", "û", "ü", "ý", "þ">>

IndexIn(seq, c) == CHOOSE i \in 1..Len(seq) : seq[i] = c
DigitVal(c) == IndexIn(AsciiDigits, c) - 1

\* str.lower(), one character
LowerChar(c) ==
    IF IsUpper(c) THEN LowerLetters[IndexIn(UpperLetters, c)]
    ELSE IF c \in Range(UpperLatin) THEN LowerLatin[IndexIn(UpperLatin, c)]
    ELSE c

PyLower(s) == [i \in 1..Len(s) |-> LowerChar(s[i])]

\* s without the leading and trailing characters of the set ws
RECURSIVE FirstNotIn(_, _, _)
FirstNotIn(s, i, ws) == IF i > Len(s) \/ s[i] \notin ws THEN i ELSE FirstNotIn(s, i + 1, ws)
RECURSIVE LastNotIn(_, _, _)
LastNotIn(s, i, ws) == IF i < 1 \/ s[i] \notin ws THEN i ELSE LastNotIn(s, i - 1, ws)
Stripped(s, ws) == SubSeq(s, FirstNotIn(s, 1, ws), LastNotIn(s, Len(s), ws))
\* str.strip(): drop leading and trailing whitespace
PyStrip(s) == Stripped(s, Whitespace)

\* the Python str a character sequence stands for
RECURSIVE Str(_)
Str(s) ==
    IF s = <<>> THEN ""
    ELSE IF Len(s) = 1 THEN s[1]
    ELSE Str(SubSeq(s, 1, Len(s) \div 2)) \o Str(SubSeq(s, Len(s) \div 2 + 1, Len(s)))

\* the characters in the order of their code points, U+0001 to U+00FF; the
\* grave accent (U+0060) cannot be written and is left out
CodePoints ==
    <<"", "", "", "", "", "", "", "", "\t", "\n", "", "\f", "\r", "", "",
      "", "", "", "", "", "", "", "", "", "", "", "", "", "", "", "",
      " ", "!", "\"", "#", "$", "%", "&", "'", "(", ")", "*", "+", ",", "-", ".", "/",
      "0", "1", "2", "3", "4", "5", "6", "7", "8", "9", ":", ";", "<", "=", ">", "?",
      "@", "A", "B", "C", "D", "E", "F", "G", "H", "I", "J", "K", "L", "M", "N", "O",
      "P", "Q", "R", "S", "T", "U", "V", "W", "X", "Y", "Z", "[", "\\", "]", "^", "_",
      "a", "b", "c", "d", "e", "f", "g", "h", "i", "j", "k", "l", "m", "n", "o", "p",
      "q", "r", "s", "t", "u", "v", "w", "x", "y", "z", "{", "|", "}", "~", "", "",
      "", "", "", "", "", "", "", "", "", "", "", "", "", "", "", "",
      "", "", "", "", "", "", "", "", "", "", "", "", "", "", "", " ",
      "¡", "¢", "£", "¤", "¥", "¦", "§", "¨", "©", "ª", "«", "¬", "­", "®", "¯", "°",
      "±", "²", "³", "´", "µ", "¶", "·", "¸", "¹", "º", "»", "¼", "½", "¾", "¿", "À",
      "Á", "Â", "Ã", "Ä", "Å", "Æ", "Ç", "È", "É", "Ê", "Ë", "Ì", "Í", "Î", "Ï", "Ð",
      "Ñ", "Ò", "Ó", "Ô", "Õ", "Ö", "×", "Ø", "Ù", "Ú", "Û", "Ü", "Ý", "Þ", "ß", "à",
      "á", "â", "ã", "ä", "å", "æ", "ç", "è", "é", "ê", "ë", "ì", "í", "î", "ï", "ð",
      "ñ", "ò", "ó", "ô", "õ", "ö", "÷", "ø", "ù", "ú", "û", "ü", "ý", "þ", "ÿ">>
\* ord(c)
Ord ==
    [c \in Range(CodePoints) |->
        LET i == IndexIn(CodePoints, c) IN IF i < 96 THEN i ELSE i + 1]
\* chr(n), for the code points that can be written
chr(n) == CodePoints[IF n < 96 THEN n ELSE IF n > 96 THEN n - 1 ELSE 0]
\* a < b for two Python strs: by the code points of their characters
RECURSIVE StrBefore(_, _)
StrBefore(a, b) ==
    IF b = "" THEN FALSE
    ELSE IF a = "" THEN TRUE
    ELSE IF SubSeq(a, 1, 1) # SubSeq(b, 1, 1) THEN Ord[SubSeq(a, 1, 1)] < Ord[SubSeq(b, 1, 1)]
    ELSE StrBefore(Tail(a), Tail(b))
\* sorted(names) for a set of strs
Sorted(names) ==
    [k \in 1..Cardinality(names) |->
        CHOOSE x \in names : Cardinality({y \in names : StrBefore(y, x)}) = k - 1]

(***************************************************************************)
(* bytes.decode("utf-8-sig"); a bytes object is a sequence of 0..255        *)
(***************************************************************************)
\* a byte that continues a character
IsCont(b) == b \in 128..191
\* the number of bytes of the character a byte starts, 0 when it starts none
Utf8Size(b) ==
    IF b < 128 THEN 1 ELSE IF b \in 194..223 THEN 2 ELSE IF b \in 224..239 THEN 3
    ELSE IF b \in 240..244 THEN 4 ELSE 0
\* the bytes that may follow the first byte b of a character: no overlong
\* form, no surrogate, nothing beyond U+10FFFF
SecondBytes(b) ==
    CASE b = 224 -> 160..191 [] b = 237 -> 128..159 [] b = 240 -> 144..191
      [] b = 244 -> 128..143 [] OTHER -> 128..191
\* the i-th byte starts a character that is complete and well formed
StartsChar(bytes, i) ==
    /\ Utf8Size(bytes[i]) > 0
    /\ i + Utf8Size(bytes[i]) - 1 <= Len(bytes)
    /\ Utf8Size(bytes[i]) > 1 => bytes[i + 1] \in SecondBytes(bytes[i])
    /\ \A j \in (i + 2)..(i + Utf8Size(bytes[i]) - 1) : IsCont(bytes[j])
\* the i-th byte continues a character started at most three bytes before
ContinuesChar(bytes, i) ==
    \E d \in 1..3 : /\ i - d >= 1
                    /\ Utf8Size(bytes[i - d]) > d
                    /\ \A j \in (i - d + 1)..(i - 1) : IsCont(bytes[j])
\* the code point of the character the i-th byte starts
CodePoint(bytes, i) ==
    CASE Utf8Size(bytes[i]) = 1 -> bytes[i]
      [] Utf8Size(bytes[i]) = 2 -> (bytes[i] - 192) * 64 + (bytes[i + 1] - 128)
      [] Utf8Size(bytes[i]) = 3 ->
            (bytes[i] - 224) * 4096 + (bytes[i + 1] - 128) * 64 + (bytes[i + 2] - 128)
      [] Utf8Size(bytes[i]) = 4 ->
            (bytes[i] - 240) * 262144 + (bytes[i + 1] - 128) * 4096
                + (bytes[i + 2] - 128) * 64 + (bytes[i + 3] - 128)
\* codecs.utf_8_decode(bytes, "strict", True): [raised, text]
utf_8_decode(bytes) ==
    LET starts == SelectSeq([i \in 1..Len(bytes) |-> i], LAMBDA i : ~IsCont(bytes[i]))
    IN  IF \A i \in 1..Len(bytes) :
              IF IsCont(bytes[i]) THEN ContinuesChar(bytes, i) ELSE StartsChar(bytes, i)
        THEN [raised |-> "none",
              text |-> [k \in 1..Len(starts) |-> chr(CodePoint(bytes, starts[k]))]]
        ELSE [raised |-> "UnicodeDecodeError", text |-> <<>>]
BOM_UTF8 == <<239, 187, 191>>
\* bytes.decode("utf-8-sig"): a byte order mark at the start is dropped
decode(bytes) ==
    utf_8_decode(IF Len(bytes) >= 3 /\ SubSeq(bytes, 1, 3) = BOM_UTF8
                 THEN SubSeq(bytes, 4, Len(bytes)) ELSE bytes)
\* text.encode("utf-8"): one byte for a character below U+0080, two for the
\* others
RECURSIVE encode(_)
encode(text) ==
    IF text = <<>> THEN <<>>
    ELSE IF Len(text) = 1
    THEN IF Ord[text[1]] < 128 THEN <<Ord[text[1]]>>
         ELSE <<192 + (Ord[text[1]] \div 64), 128 + (Ord[text[1]] % 64)>>
    ELSE encode(SubSeq(text, 1, Len(text) \div 2))
             \o encode(SubSeq(text, Len(text) \div 2 + 1, Len(text)))

\* sep.join(strs) for Python strs
RECURSIVE JoinStr(_, _)
JoinStr(strs, sep) ==
    IF strs = <<>> THEN ""
    ELSE IF Len(strs) = 1 THEN strs[1]
    ELSE strs[1] \o sep \o JoinStr(Tail(strs), sep)

(***************************************************************************)
(* int(str)                                                                *)
(***************************************************************************)
RECURSIVE DigitsValue(_, _)
DigitsValue(ds, n) == IF n = 0 THEN 0 ELSE 10 * DigitsValue(ds, n - 1) + DigitVal(ds[n])

AllDigits(s) == \A i \in 1..Len(s) : IsAsciiDigit(s[i])

\* int(value): surrounding whitespace ignored (not U+001C to U+001F), an
\* optional sign, decimal digits, single underscores allowed between digits;
\* anything else is a ValueError.
IsSigned(t) == t # <<>> /\ t[1] \in {"+", "-"}
Unsigned(t) == IF IsSigned(t) THEN Tail(t) ELSE t
IsNegative(t) == IsSigned(t) /\ t[1] = "-"

IntDigitsWellFormed(body) ==
    /\ body # <<>>
    /\ \A i \in 1..Len(body) :
          \/ IsAsciiDigit(body[i])
          \/ /\ body[i] = "_"
             /\ 1 < i /\ i < Len(body)
             /\ IsAsciiDigit(body[i - 1]) /\ IsAsciiDigit(body[i + 1])

IntOfStripped(t) ==
    LET ds == SelectSeq(Unsigned(t), IsAsciiDigit)
        mag == DigitsValue(ds, Len(ds))
    IN  IF ~IntDigitsWellFormed(Unsigned(t)) THEN [ok |-> FALSE, val |-> 0]
        ELSE [ok |-> TRUE, val |-> IF IsNegative(t) THEN 0 - mag ELSE mag]

PyInt(value) == IntOfStripped(Stripped(value, IntWhitespace))

(***************************************************************************)
(* decimal.Decimal(str)                                                    *)
(***************************************************************************)
FirstIndexOf(s, c) ==
    IF c \in Range(s) THEN CHOOSE i \in 1..Len(s) : s[i] = c /\ \A j \in 1..(i - 1) : s[j] # c
    ELSE 0

InvalidDecimal == [ok |-> FALSE, kind |-> "invalid", sign |-> 0, coef |-> 0, exp |-> 0]

\* Decimal(value): whitespace stripped, underscores removed, then
\*   [sign] digits [. digits] [E [sign] digits] | [sign] Inf[inity] | [sign] [s]NaN[digits]
\* case-insensitively; anything else raises InvalidOperation.
\* the part of s before the first c (all of s when there is none), and the part
\* after it
Before(s, c) == IF FirstIndexOf(s, c) = 0 THEN s ELSE SubSeq(s, 1, FirstIndexOf(s, c) - 1)
After(s, c) == IF FirstIndexOf(s, c) = 0 THEN <<>> ELSE SubSeq(s, FirstIndexOf(s, c) + 1, Len(s))

\* the exponent after "e": [ok, val]
ExponentValue(expo) ==
    IF Unsigned(expo) = <<>> \/ ~AllDigits(Unsigned(expo)) THEN [ok |-> FALSE, val |-> 0]
    ELSE [ok |-> TRUE,
          val |-> IF IsNegative(expo) THEN 0 - DigitsValue(Unsigned(expo), Len(Unsigned(expo)))
                  ELSE DigitsValue(Unsigned(expo), Len(Unsigned(expo)))]

Exponent(body) == IF "e" \in Range(body) THEN ExponentValue(After(body, "e"))
                  ELSE [ok |-> TRUE, val |-> 0]

\* digits [. digits] with the exponent e
FiniteDecimal(sign, intp, frac, e) ==
    IF AllDigits(intp) /\ AllDigits(frac) /\ Len(intp) + Len(frac) >= 1 /\ e.ok
    THEN [ok |-> TRUE, kind |-> "finite", sign |-> sign,
          coef |-> DigitsValue(intp \o frac, Len(intp) + Len(frac)), exp |-> e.val - Len(frac)]
    ELSE InvalidDecimal

DecimalOfBody(sign, body) ==
    LET isNaN == \/ (Len(body) >= 3 /\ SubSeq(body, 1, 3) = <<"n", "a", "n">>
                       /\ AllDigits(SubSeq(body, 4, Len(body))))
                 \/ (Len(body) >= 4 /\ SubSeq(body, 1, 4) = <<"s", "n", "a", "n">>
                       /\ AllDigits(SubSeq(body, 5, Len(body))))
        mant == Before(body, "e")
    IN  IF body \in {<<"i", "n", "f">>, <<"i", "n", "f", "i", "n", "i", "t", "y">>}
        THEN [ok |-> TRUE, kind |-> "Infinity", sign |-> sign, coef |-> 0, exp |-> 0]
        ELSE IF isNaN
        THEN [ok |-> TRUE, kind |-> "NaN", sign |-> sign, coef |-> 0, exp |-> 0]
        ELSE FiniteDecimal(sign, Before(mant, "."), After(mant, "."), Exponent(body))

Decimal(value) ==
    LET t == PyLower(SelectSeq(PyStrip(value), LAMBDA c : c # "_"))
    IN  DecimalOfBody(IF IsNegative(t) THEN 1 ELSE 0, Unsigned(t))

(***************************************************************************)
(* datetime.strptime(value, format).date()                                 *)
(***************************************************************************)
\* the directives of _strptime.TimeRE that capture a group
Directives == {"d", "f", "H", "I", "G", "j", "m", "M", "S", "U", "W", "w", "u", "V",
               "y", "Y", "z", "A", "a", "B", "b", "p", "Z"}
\* the formats %c, %x and %X stand for (LocaleTime of the C locale)
LC_date_time == <<"%", "a", " ", "%", "b", " ", "%", "d", " ", "%", "H", ":", "%", "M",
                  ":", "%", "S", " ", "%", "Y">>
LC_date == <<"%", "m", "/", "%", "d", "/", "%", "y">>
LC_time == <<"%", "H", ":", "%", "M", ":", "%", "S">>

\* The format string as the parts of the regular expression TimeRE.pattern()
\* builds: a directive, a run of whitespace (one \s+), a literal character, or
\* "bad" for a % followed by no directive (an escaped character and \s+ start
\* with a backslash, which is no directive).
RECURSIVE FormatTokens(_, _)
FormatTokens(fmt, i) ==
    IF i > Len(fmt) THEN <<>>
    ELSE IF fmt[i] = "%"
    THEN IF i = Len(fmt) THEN <<[t |-> "bad", c |-> "%"]>>
         ELSE IF fmt[i + 1] \in Directives
         THEN <<[t |-> fmt[i + 1], c |-> "%"]>> \o FormatTokens(fmt, i + 2)
         ELSE IF fmt[i + 1] = "%"
         THEN <<[t |-> "lit", c |-> "%"]>> \o FormatTokens(fmt, i + 2)
         ELSE IF fmt[i + 1] = "c"
         THEN FormatTokens(LC_date_time, 1) \o FormatTokens(fmt, i + 2)
         ELSE IF fmt[i + 1] = "x"
         THEN FormatTokens(LC_date, 1) \o FormatTokens(fmt, i + 2)
         ELSE IF fmt[i + 1] = "X"
         THEN FormatTokens(LC_time, 1) \o FormatTokens(fmt, i + 2)
         ELSE <<[t |-> "bad", c |-> fmt[i + 1]]>>
    ELSE IF IsSpace(fmt[i])
    THEN <<[t |-> "ws", c |-> " "]>> \o FormatTokens(fmt, FirstNotIn(fmt, i, Whitespace))
    ELSE <<[t |-> "lit", c |-> fmt[i]]>> \o FormatTokens(fmt, i + 1)

\* a group name used twice: re.compile() raises re.error
DirectiveTwice(toks) ==
    \E j, k \in 1..Len(toks) : j < k /\ toks[j].t \in Directives /\ toks[j].t = toks[k].t

CharAt(s, i) == IF i >= 1 /\ i <= Len(s) THEN s[i] ELSE ""
DigitAt(s, i) == i >= 1 /\ i <= Len(s) /\ IsAsciiDigit(s[i])
TwoDigits(s, i) == 10 * DigitVal(s[i]) + DigitVal(s[i + 1])

\* n digits at position i whose value lies in lo..hi
DigitsOption(s, i, n, lo, hi) ==
    IF (\A k \in 0..(n - 1) : DigitAt(s, i + k))
       /\ DigitsValue(SubSeq(s, i, i + n - 1), n) \in lo..hi
    THEN <<[len |-> n, val |-> DigitsValue(SubSeq(s, i, i + n - 1), n)]>>
    ELSE <<>>

\* one of names at position i, letter case ignored; val is its index from base
NameOption(s, i, names, base) ==
    LET hit == {n \in 1..Len(names) :
                   /\ i + Len(names[n]) - 1 <= Len(s)
                   /\ PyLower(SubSeq(s, i, i + Len(names[n]) - 1)) = names[n]}
    IN  IF hit = {} THEN <<>>
        ELSE LET n == CHOOSE n \in hit : TRUE
             IN  <<[len |-> Len(names[n]), val |-> base + n - 1]>>

f_weekday == <<<<"m", "o", "n", "d", "a", "y">>, <<"t", "u", "e", "s", "d", "a", "y">>,
               <<"w", "e", "d", "n", "e", "s", "d", "a", "y">>,
               <<"t", "h", "u", "r", "s", "d", "a", "y">>, <<"f", "r", "i", "d", "a", "y">>,
               <<"s", "a", "t", "u", "r", "d", "a", "y">>, <<"s", "u", "n", "d", "a", "y">>>>
f_month == <<<<"j", "a", "n", "u", "a", "r", "y">>, <<"f", "e", "b", "r", "u", "a", "r", "y">>,
             <<"m", "a", "r", "c", "h">>, <<"a", "p", "r", "i", "l">>, <<"m", "a", "y">>,
             <<"j", "u", "n", "e">>, <<"j", "u", "l", "y">>, <<"a", "u", "g", "u", "s", "t">>,
             <<"s", "e", "p", "t", "e", "m", "b", "e", "r">>,
             <<"o", "c", "t", "o", "b", "e", "r">>, <<"n", "o", "v", "e", "m", "b", "e", "r">>,
             <<"d", "e", "c", "e", "m", "b", "e", "r">>>>
\* the abbreviated names are the first three letters
Abbreviated(names) == [n \in 1..Len(names) |-> SubSeq(names[n], 1, 3)]
am_pm == <<<<"a", "m">>, <<"p", "m">>>>
timezone == <<<<"u", "t", "c">>, <<"g", "m", "t">>>>

\* the number of digits from position i, at most max
RECURSIVE DigitRun(_, _, _)
DigitRun(s, i, max) == IF max = 0 \/ ~DigitAt(s, i) THEN 0 ELSE 1 + DigitRun(s, i + 1, max - 1)

\* %z: [+-]\d\d:?[0-5]\d(:?[0-5]\d(\.\d{1,6})?)?|(?-i:Z).  val is 1 when the
\* offset is one strptime accepts: the colons used consistently and the offset
\* less than 24 hours.
ZoneOptions(s, i) ==
    IF CharAt(s, i) = "Z" THEN <<[len |-> 1, val |-> 1]>>
    ELSE IF ~(CharAt(s, i) \in {"+", "-"} /\ DigitAt(s, i + 1) /\ DigitAt(s, i + 2)) THEN <<>>
    ELSE LET colon1 == CharAt(s, i + 3) = ":"
             p == IF colon1 THEN i + 4 ELSE i + 3
             hoursOk == TwoDigits(s, i + 1) < 24
             colon2 == CharAt(s, p + 2) = ":"
             q == IF colon2 THEN p + 3 ELSE p + 2
             seconds == DigitAt(s, q) /\ DigitVal(s[q]) <= 5 /\ DigitAt(s, q + 1)
             nfrac == IF seconds /\ CharAt(s, q + 2) = "." THEN DigitRun(s, q + 3, 6) ELSE 0
             ok == IF hoursOk /\ colon1 = colon2 THEN 1 ELSE 0
         IN  IF ~(DigitAt(s, p) /\ DigitVal(s[p]) <= 5 /\ DigitAt(s, p + 1)) THEN <<>>
             ELSE (IF seconds
                   THEN [k \in 1..nfrac |-> [len |-> q + 3 + (nfrac - k) + 1 - i, val |-> ok]]
                        \o <<[len |-> q + 2 - i, val |-> ok]>>
                   ELSE <<>>)
                  \o <<[len |-> p + 2 - i, val |-> IF hoursOk THEN 1 ELSE 0]>>

\* The ways one token can match value at position i, in the order the regular
\* expression of _strptime tries them: each is [len, val].
\*   %d  3[0-1]|[1-2]\d|0[1-9]|[1-9]| [1-9]      %f  [0-9]{1,6}
\*   %H  2[0-3]|[0-1]\d|\d                       %I  1[0-2]|0[1-9]|[1-9]
\*   %j  36[0-6]|3[0-5]\d|[1-2]\d\d|0[1-9]\d|00[1-9]|[1-9]\d|0[1-9]|[1-9]
\*   %m  1[0-2]|0[1-9]|[1-9]                     %M  [0-5]\d|\d
\*   %S  6[0-1]|[0-5]\d|\d                       %U %W  5[0-3]|[0-4]\d|\d
\*   %w  [0-6]    %u  [1-7]                      %V  5[0-3]|0[1-9]|[1-4]\d|\d
\*   %y  \d\d     %Y %G  \d\d\d\d
\*   %A %a %B %b %p %Z  the names of the locale, letter case ignored
TokenOptions(tok, s, i) ==
    CASE tok.t \in {"Y", "G"} -> DigitsOption(s, i, 4, 0, 9999)
      [] tok.t = "y" -> DigitsOption(s, i, 2, 0, 99)
      [] tok.t \in {"m", "I"} -> DigitsOption(s, i, 2, 1, 12) \o DigitsOption(s, i, 1, 1, 9)
      [] tok.t = "d" ->
            DigitsOption(s, i, 2, 1, 31) \o DigitsOption(s, i, 1, 1, 9)
            \o (IF CharAt(s, i) = " " /\ DigitAt(s, i + 1) /\ s[i + 1] # "0"
                THEN <<[len |-> 2, val |-> DigitVal(s[i + 1])]>> ELSE <<>>)
      [] tok.t = "H" -> DigitsOption(s, i, 2, 0, 23) \o DigitsOption(s, i, 1, 0, 9)
      [] tok.t = "M" -> DigitsOption(s, i, 2, 0, 59) \o DigitsOption(s, i, 1, 0, 9)
      [] tok.t = "S" -> DigitsOption(s, i, 2, 0, 61) \o DigitsOption(s, i, 1, 0, 9)
      [] tok.t \in {"U", "W"} -> DigitsOption(s, i, 2, 0, 53) \o DigitsOption(s, i, 1, 0, 9)
      [] tok.t = "V" -> DigitsOption(s, i, 2, 1, 53) \o DigitsOption(s, i, 1, 0, 9)
      [] tok.t = "j" ->
            DigitsOption(s, i, 3, 1, 366) \o DigitsOption(s, i, 2, 1, 99)
            \o DigitsOption(s, i, 1, 1, 9)
      [] tok.t = "w" -> DigitsOption(s, i, 1, 0, 6)
      [] tok.t = "u" -> DigitsOption(s, i, 1, 1, 7)
      [] tok.t = "f" ->
            LET n == DigitRun(s, i, 6) IN [k \in 1..n |-> [len |-> n + 1 - k, val |-> 0]]
      [] tok.t = "A" -> NameOption(s, i, f_weekday, 0)
      [] tok.t = "a" -> NameOption(s, i, Abbreviated(f_weekday), 0)
      [] tok.t = "B" -> NameOption(s, i, f_month, 1)
      [] tok.t = "b" -> NameOption(s, i, Abbreviated(f_month), 1)
      [] tok.t = "p" -> NameOption(s, i, am_pm, 0)
      [] tok.t = "Z" -> NameOption(s, i, timezone, 0)
      [] tok.t = "z" -> ZoneOptions(s, i)
      [] tok.t = "ws" ->
            LET n == FirstNotIn(s, i, Whitespace) - i
            IN  [k \in 1..n |-> [len |-> n + 1 - k, val |-> 0]]
      [] tok.t = "lit" ->
            IF LowerChar(CharAt(s, i)) = LowerChar(tok.c)
            THEN <<[len |-> 1, val |-> 0]>> ELSE <<>>
      [] OTHER -> <<>>

NoMatch == [ok |-> FALSE, end |-> 0, found |-> <<>>]

\* First match of tokens[k..] against s from position i, alternatives tried in
\* order with backtracking, as re.match does.  found holds the groups in the
\* order of the format: [t, val].
RECURSIVE MatchTokens(_, _, _, _)
RECURSIVE TryOptions(_, _, _, _, _, _)
MatchTokens(toks, k, s, i) ==
    IF k > Len(toks) THEN [ok |-> TRUE, end |-> i, found |-> <<>>]
    ELSE TryOptions(toks, k, s, i, TokenOptions(toks[k], s, i), 1)
TryOptions(toks, k, s, i, opts, n) ==
    IF n > Len(opts) THEN NoMatch
    ELSE LET rest == MatchTokens(toks, k + 1, s, i + opts[n].len)
         IN  IF rest.ok
             THEN IF toks[k].t \in Directives
                  THEN [ok |-> TRUE, end |-> rest.end,
                        found |-> <<[t |-> toks[k].t, val |-> opts[n].val]>> \o rest.found]
                  ELSE rest
             ELSE TryOptions(toks, k, s, i, opts, n + 1)

\* calendar.isleap() and the proleptic Gregorian calendar of datetime.date
IsLeap(y) == (y % 4 = 0 /\ y % 100 # 0) \/ y % 400 = 0
DaysInMonth(y, m) ==
    IF m = 2 THEN (IF IsLeap(y) THEN 29 ELSE 28)
    ELSE IF m \in {4, 6, 9, 11} THEN 30 ELSE 31
DaysInYear(y) == IF IsLeap(y) THEN 366 ELSE 365
RECURSIVE DaysBeforeMonth(_, _)
DaysBeforeMonth(y, m) == IF m = 1 THEN 0 ELSE DaysBeforeMonth(y, m - 1) + DaysInMonth(y, m - 1)
\* date(y, 1, 1).toordinal() - 1
DaysBeforeYear(y) == 365 * (y - 1) + ((y - 1) \div 4) - ((y - 1) \div 100) + ((y - 1) \div 400)
\* date(y, 1, 1).weekday(), Monday = 0
FirstWeekday(y) == DaysBeforeYear(y) % 7
\* datetime.MINYEAR <= y <= datetime.MAXYEAR
ValidYear(y) == y >= 1 /\ y <= 9999

None == 0 - 1

\* the values _strptime starts from, and the one each group sets
TimeDefaults ==
    [year |-> None, iso_year |-> None, month |-> 1, day |-> 1, second |-> 0,
     weekday |-> None, julian |-> None, week_of_year |-> None, week_of_year_start |-> None,
     iso_week |-> None, zone_ok |-> TRUE]
SetGroup(f, t, v) ==
    CASE t = "y" -> [f EXCEPT !.year = IF v <= 68 THEN v + 2000 ELSE v + 1900]
      [] t = "Y" -> [f EXCEPT !.year = v]
      [] t = "G" -> [f EXCEPT !.iso_year = v]
      [] t \in {"m", "B", "b"} -> [f EXCEPT !.month = v]
      [] t = "d" -> [f EXCEPT !.day = v]
      [] t = "S" -> [f EXCEPT !.second = v]
      [] t \in {"A", "a"} -> [f EXCEPT !.weekday = v]
      [] t = "w" -> [f EXCEPT !.weekday = IF v = 0 THEN 6 ELSE v - 1]
      [] t = "u" -> [f EXCEPT !.weekday = v - 1]
      [] t = "j" -> [f EXCEPT !.julian = v]
      [] t = "U" -> [f EXCEPT !.week_of_year = v, !.week_of_year_start = 6]
      [] t = "W" -> [f EXCEPT !.week_of_year = v, !.week_of_year_start = 0]
      [] t = "V" -> [f EXCEPT !.iso_week = v]
      [] t = "z" -> [f EXCEPT !.zone_ok = (v = 1)]
      [] OTHER -> f
RECURSIVE TimeFields(_, _)
TimeFields(found, n) ==
    IF n = 0 THEN TimeDefaults ELSE SetGroup(TimeFields(found, n - 1), found[n].t, found[n].val)

_calc_julian_from_U_or_W(year, week_of_year, day_of_week, week_starts_Mon) ==
    LET first_weekday == IF week_starts_Mon THEN FirstWeekday(year)
                         ELSE (FirstWeekday(year) + 1) % 7
        dow == IF week_starts_Mon THEN day_of_week ELSE (day_of_week + 1) % 7
        week_0_length == (7 - first_weekday) % 7
    IN  IF week_of_year = 0 THEN 1 + dow - first_weekday
        ELSE 1 + week_0_length + 7 * (week_of_year - 1) + dow

\* [ok, year, julian]; ok = FALSE when a date it builds has the year 0
_calc_julian_from_V(iso_year, iso_week, iso_weekday) ==
    LET correction == ((FirstWeekday(iso_year) + 3) % 7) + 1 + 3
        ordinal == iso_week * 7 + iso_weekday - correction
    IN  IF ~ValidYear(iso_year) THEN [ok |-> FALSE, year |-> 0, julian |-> 0]
        ELSE IF ordinal >= 1 THEN [ok |-> TRUE, year |-> iso_year, julian |-> ordinal]
        ELSE IF ~ValidYear(iso_year - 1) THEN [ok |-> FALSE, year |-> 0, julian |-> 0]
        ELSE [ok |-> TRUE, year |-> iso_year - 1,
              julian |-> ordinal + DaysBeforeYear(iso_year) - DaysBeforeYear(iso_year - 1)]

\* the year and the day of the year that (julian - 1) days after 1 January of
\* year fall in
RECURSIVE YearDay(_, _)
YearDay(year, julian) ==
    IF julian > DaysInYear(year) THEN YearDay(year + 1, julian - DaysInYear(year))
    ELSE [year |-> year, julian |-> julian]
MonthOfDay(year, julian) ==
    CHOOSE m \in 1..12 : DaysBeforeMonth(year, m) < julian
                          /\ julian <= DaysBeforeMonth(year, m) + DaysInMonth(year, m)

\* datetime.strptime(value, format).date(): [ok, date, error]; error names the
\* exception: ValueError on a bad directive, no match, unconverted trailing
\* data or values that make no date; re.error ("error") on a directive used
\* twice.
NoDate == [ok |-> FALSE, date |-> <<0, 0, 0>>, error |-> "ValueError"]
ReError == [ok |-> FALSE, date |-> <<0, 0, 0>>, error |-> "error"]
ADate(y, m, d) == [ok |-> TRUE, date |-> <<y, m, d>>, error |-> "none"]

\* The part of _strptime after the loop over the groups, and the datetime
\* constructor, for the values f.
\* the julian day is computed from a week number and a weekday
FromWeeks(f) ==
    /\ f.julian = None /\ f.weekday # None
    /\ (f.week_of_year # None \/ (f.iso_year # None /\ f.iso_week # None))
\* ISO year without ISO week and weekday, or ISO week without ISO year
BadIsoDirectives(f) ==
    IF f.year = None /\ f.iso_year # None
    THEN f.iso_week = None \/ f.weekday = None \/ f.julian # None
    ELSE f.week_of_year = None /\ f.iso_week # None
\* [ok, year, julian]: the day of the year, computed when it is not given
JulianOf(f, year) ==
    IF ~FromWeeks(f) THEN [ok |-> TRUE, year |-> year, julian |-> f.julian]
    ELSE IF f.week_of_year # None
    THEN [ok |-> ValidYear(year), year |-> year,
          julian |-> _calc_julian_from_U_or_W(year, f.week_of_year, f.weekday,
                                              f.week_of_year_start = 0)]
    ELSE _calc_julian_from_V(f.iso_year, f.iso_week, f.weekday + 1)
\* if julian <= 0: year -= 1; julian += the days of that year
Wrapped(f, calc) ==
    IF FromWeeks(f) /\ calc.julian <= 0
    THEN [year |-> calc.year - 1, julian |-> calc.julian + DaysInYear(calc.year - 1)]
    ELSE [year |-> calc.year, julian |-> calc.julian]
\* datetime_date.fromordinal(julian - 1 + the ordinal of 1 January of year)
DateOfMonthDay(leap_year_fix, yd, month) ==
    IF leap_year_fix
    THEN IF yd.julian - DaysBeforeMonth(yd.year, month) > DaysInMonth(1900, month)
         THEN NoDate
         ELSE ADate(1900, month, yd.julian - DaysBeforeMonth(yd.year, month))
    ELSE ADate(yd.year, month, yd.julian - DaysBeforeMonth(yd.year, month))
DateOfYearDay(leap_year_fix, yd) ==
    IF ~ValidYear(yd.year) THEN NoDate
    ELSE DateOfMonthDay(leap_year_fix, yd, MonthOfDay(yd.year, yd.julian))
DateOfJulian(f, year, leap_year_fix, calc, w) ==
    IF BadIsoDirectives(f) \/ f.second > 59 \/ ~f.zone_ok \/ ~calc.ok \/ ~ValidYear(w.year)
    THEN NoDate
    ELSE IF ~FromWeeks(f) /\ f.julian = None
    THEN IF leap_year_fix \/ f.day > DaysInMonth(year, f.month) THEN NoDate
         ELSE ADate(year, f.month, f.day)
    ELSE DateOfYearDay(leap_year_fix, YearDay(w.year, w.julian))
DateOfYear(f, year, leap_year_fix, calc) ==
    DateOfJulian(f, year, leap_year_fix, calc, Wrapped(f, calc))
DateOfLeap(f, leap_year_fix) ==
    DateOfYear(f, IF leap_year_fix THEN 1904 ELSE IF f.year = None THEN 1900 ELSE f.year,
               leap_year_fix,
               JulianOf(f, IF leap_year_fix THEN 1904
                           ELSE IF f.year = None THEN 1900 ELSE f.year))
DateOfFields(f) == DateOfLeap(f, f.year = None /\ f.month = 2 /\ f.day = 29)

\* the date of a match r of a value of length n
DateOfMatch(r, n) ==
    IF ~r.ok \/ r.end # n + 1 THEN NoDate
    ELSE DateOfFields(TimeFields(r.found, Len(r.found)))

StrptimeTokens(value, toks) ==
    IF \E k \in 1..Len(toks) : toks[k].t = "bad" THEN NoDate
    ELSE IF DirectiveTwice(toks) THEN ReError
    ELSE DateOfMatch(MatchTokens(toks, 1, value, 1), Len(value))

Strptime(value, format) == StrptimeTokens(value, FormatTokens(format, 1))

(***************************************************************************)
(* POSTCODE_RE.search(value)                                               *)
(***************************************************************************)
AlphaAt(s, i) == IsAlpha(CharAt(s, i))
\* [A-Ha-hJ-Yj-y]
SecondLetterAt(s, i) == AlphaAt(s, i) /\ LowerChar(s[i]) \notin {"i", "z"}

\* ([Gg][Ii][Rr] 0[Aa]{2}) at position i
GirAt(s, i) ==
    /\ LowerChar(CharAt(s, i)) = "g"
    /\ LowerChar(CharAt(s, i + 1)) = "i"
    /\ LowerChar(CharAt(s, i + 2)) = "r"
    /\ CharAt(s, i + 3) = " "
    /\ CharAt(s, i + 4) = "0"
    /\ LowerChar(CharAt(s, i + 5)) = "a"
    /\ LowerChar(CharAt(s, i + 6)) = "a"

\* Where the outward code may end (the index after it), in the order the
\* alternatives and their greedy repetitions are tried:
\*   [A-Za-z][0-9]{1,2} | [A-Za-z][A-Ha-hJ-Yj-y][0-9]{1,2}
\*   | [A-Za-z][0-9][A-Za-z] | [A-Za-z][A-Ha-hJ-Yj-y][0-9]?[A-Za-z]
OutwardEnds(s, i) ==
    IF ~AlphaAt(s, i) THEN <<>>
    ELSE (IF DigitAt(s, i + 1) /\ DigitAt(s, i + 2) THEN <<i + 3>> ELSE <<>>)
      \o (IF DigitAt(s, i + 1) THEN <<i + 2>> ELSE <<>>)
      \o (IF SecondLetterAt(s, i + 1) /\ DigitAt(s, i + 2) /\ DigitAt(s, i + 3)
          THEN <<i + 4>> ELSE <<>>)
      \o (IF SecondLetterAt(s, i + 1) /\ DigitAt(s, i + 2) THEN <<i + 3>> ELSE <<>>)
      \o (IF DigitAt(s, i + 1) /\ AlphaAt(s, i + 2) THEN <<i + 3>> ELSE <<>>)
      \o (IF SecondLetterAt(s, i + 1) /\ DigitAt(s, i + 2) /\ AlphaAt(s, i + 3)
          THEN <<i + 4>> ELSE <<>>)
      \o (IF SecondLetterAt(s, i + 1) /\ AlphaAt(s, i + 2) THEN <<i + 3>> ELSE <<>>)

\* \s*[0-9][A-Za-z]{2} from position j: the index after the match, or 0
InwardEnd(s, j) ==
    LET n == CHOOSE n \in 0..Len(s) :
                /\ \A k \in 0..(n - 1) : IsSpace(CharAt(s, j + k))
                /\ ~IsSpace(CharAt(s, j + n))
        p == j + n
    IN  IF DigitAt(s, p) /\ AlphaAt(s, p + 1) /\ AlphaAt(s, p + 2) THEN p + 3 ELSE 0

\* the index after the match of POSTCODE_RE that starts at position i, or 0
\* the first element of the sequence ends that is not 0, or 0
FirstNonZero(ends) ==
    IF \A n \in 1..Len(ends) : ends[n] = 0 THEN 0
    ELSE ends[CHOOSE n \in 1..Len(ends) : ends[n] # 0 /\ \A m \in 1..(n - 1) : ends[m] = 0]

PostcodeMatchEnd(s, i) ==
    IF GirAt(s, i) THEN i + 7
    ELSE FirstNonZero([n \in 1..Len(OutwardEnds(s, i)) |-> InwardEnd(s, OutwardEnds(s, i)[n])])

\* the leftmost match, given where the match starting at each position ends
LeftmostMatch(value, ends) ==
    IF \A i \in 1..Len(ends) : ends[i] = 0 THEN [found |-> FALSE, group0 |-> <<>>]
    ELSE [found |-> TRUE,
          group0 |-> SubSeq(value,
                            CHOOSE i \in 1..Len(ends) :
                                ends[i] # 0 /\ \A j \in 1..(i - 1) : ends[j] = 0,
                            FirstNonZero(ends) - 1)]

\* POSTCODE_RE.search(value): the leftmost match, as [found, group0]
POSTCODE_RE_search(value) ==
    LeftmostMatch(value, [i \in 1..Len(value) |-> PostcodeMatchEnd(value, i)])

(***************************************************************************)
(* csv.reader and csv.DictReader                                           *)
(***************************************************************************)
\* the pieces of s between the occurrences of the character sep
SplitOn(s, sep) ==
    LET pos == {i \in 1..Len(s) : s[i] = sep}
        n == Cardinality(pos)
        nth(k) == IF k = 0 THEN 0
                  ELSE IF k = n + 1 THEN Len(s) + 1
                  ELSE CHOOSE i \in pos : Cardinality({j \in pos : j <= i}) = k
    IN  [k \in 1..(n + 1) |-> SubSeq(s, nth(k - 1) + 1, nth(k) - 1)]

\* the lines io.StringIO(text) yields: each ends after a line feed, which it keeps
StringIO(text) ==
    LET pieces == SplitOn(text, "\n")
        n == Len(pieces)
    IN  [k \in 1..(IF pieces[n] = <<>> THEN n - 1 ELSE n) |->
            IF k < n THEN Append(pieces[k], "\n") ELSE pieces[k]]

\* the reader of _csv with the default dialect (quotechar ", doublequote, no
\* escapechar, not strict): the state of the parser, the fields of the record
\* being read and the field being read
quotechar == "\""
EOL == "EOL"
parse_reset == [state |-> "START_RECORD", fields |-> <<>>, field |-> <<>>, error |-> FALSE]
parse_save_field(p, state) ==
    [state |-> state, fields |-> Append(p.fields, p.field), field |-> <<>>, error |-> FALSE]
\* csv.field_size_limit(): a field that holds as many characters takes no more
field_limit == 128 * 1024
parse_add_char(p, c, state) ==
    IF Len(p.field) >= field_limit THEN [p EXCEPT !.error = TRUE]
    ELSE [state |-> state, fields |-> p.fields, field |-> Append(p.field, c), error |-> FALSE]
MoveTo(p, state) == [state |-> state, fields |-> p.fields, field |-> p.field, error |-> FALSE]

\* parse_process_char(): c is a character of the line, or EOL at its end
parse_process_char(p, c, delimiter) ==
    LET newline == c \in {"\n", "\r", EOL}
        after == IF c = EOL THEN "START_RECORD" ELSE "EAT_CRNL"
        state == IF p.state = "START_RECORD" /\ ~newline THEN "START_FIELD" ELSE p.state
    IN  CASE state = "START_RECORD" -> IF c = EOL THEN p ELSE MoveTo(p, "EAT_CRNL")
          [] state = "START_FIELD" ->
                IF newline THEN parse_save_field(p, after)
                ELSE IF c = quotechar THEN MoveTo(p, "IN_QUOTED_FIELD")
                ELSE IF c = delimiter THEN parse_save_field(p, "START_FIELD")
                ELSE parse_add_char(p, c, "IN_FIELD")
          [] state = "IN_FIELD" ->
                IF newline THEN parse_save_field(p, after)
                ELSE IF c = delimiter THEN parse_save_field(p, "START_FIELD")
                ELSE parse_add_char(p, c, "IN_FIELD")
          [] state = "IN_QUOTED_FIELD" ->
                IF c = EOL THEN p
                ELSE IF c = quotechar THEN MoveTo(p, "QUOTE_IN_QUOTED_FIELD")
                ELSE parse_add_char(p, c, "IN_QUOTED_FIELD")
          [] state = "QUOTE_IN_QUOTED_FIELD" ->
                IF c = quotechar THEN parse_add_char(p, c, "IN_QUOTED_FIELD")
                ELSE IF c = delimiter THEN parse_save_field(p, "START_FIELD")
                ELSE IF newline THEN parse_save_field(p, after)
                ELSE parse_add_char(p, c, "IN_FIELD")
          [] state = "EAT_CRNL" ->
                IF c \in {"\n", "\r"} THEN p
                ELSE IF c = EOL THEN MoveTo(p, "START_RECORD")
                ELSE [p EXCEPT !.error = TRUE]

\* the characters lo..hi of line, one after the other (the first half, then
\* the second), up to the first error
RECURSIVE ProcessChars(_, _, _, _, _)
ProcessChars(p, line, lo, hi, delimiter) ==
    IF p.error \/ lo > hi THEN p
    ELSE IF lo = hi THEN parse_process_char(p, line[lo], delimiter)
    ELSE ProcessChars(ProcessChars(p, line, lo, (lo + hi) \div 2, delimiter),
                      line, (lo + hi) \div 2 + 1, hi, delimiter)
\* the characters of line, then EOL
ProcessLine(p, line, delimiter) ==
    LET q == ProcessChars(p, line, 1, Len(line), delimiter)
    IN  IF q.error THEN q ELSE parse_process_char(q, EOL, delimiter)

\* a line that holds no quote and no carriage return and is too short for a
\* field beyond the limit, read at the start of a record, is one record: its
\* text before the line feed split on the delimiter
IsPlain(line) ==
    quotechar \notin Range(line) /\ "\r" \notin Range(line) /\ Len(line) <= field_limit
PlainRecord(line, delimiter) ==
    IF line = <<"\n">> THEN <<>>
    ELSE IF line[Len(line)] = "\n" THEN SplitOn(SubSeq(line, 1, Len(line) - 1), delimiter)
    ELSE SplitOn(line, delimiter)

\* Reader_iternext() called until the input ends or csv.Error is raised: the
\* records read from the k-th line on, after rows; at the end of the input
\* inside a quoted field the record read so far is returned
RECURSIVE ReadRecords(_, _, _, _, _)
ReadRecords(lines, k, p, rows, delimiter) ==
    IF k > Len(lines)
    THEN [rows |-> IF p.state = "IN_QUOTED_FIELD"
                   THEN Append(rows, parse_save_field(p, p.state).fields) ELSE rows,
          raised |-> "none"]
    ELSE IF p.state = "START_RECORD" /\ IsPlain(lines[k]) /\ delimiter # "\n"
    THEN ReadRecords(lines, k + 1, p, Append(rows, PlainRecord(lines[k], delimiter)), delimiter)
    ELSE LET q == ProcessLine(p, lines[k], delimiter)
         IN  IF q.error THEN [rows |-> rows, raised |-> "Error"]
             ELSE IF q.state = "START_RECORD"
             THEN ReadRecords(lines, k + 1, parse_reset, Append(rows, q.fields), delimiter)
             ELSE ReadRecords(lines, k + 1, q, rows, delimiter)

\* csv.reader(io.StringIO(text), delimiter=d) read to its end: [rows, raised],
\* the rows it yields and "Error" if it then raises csv.Error
csv_reader(text, delimiter) == ReadRecords(StringIO(text), 1, parse_reset, <<>>, delimiter)

\* One row as csv.DictReader yields it, d = dict(zip(fieldnames, row)) and
\* then d[key] = None (restval) for the names beyond the row: the items of the
\* dict in its order.  A name the header holds more than once is one item, at
\* the place of its first column and with the value of its last.  Cells beyond
\* the header are kept as a list under the key None (restkey).
DictRow(fieldnames, row) ==
    LET lf == Len(fieldnames)
        lr == Len(row)
        first(i) == \A j \in 1..(i - 1) : fieldnames[j] # fieldnames[i]
        last(i) == CHOOSE j \in i..lf :
                      fieldnames[j] = fieldnames[i] /\ \A k \in (j + 1)..lf : fieldnames[k] # fieldnames[i]
        keys == SelectSeq([i \in 1..lf |-> i], first)
        d == [n \in 1..Len(keys) |->
                 [key |-> fieldnames[keys[n]],
                  value |-> IF last(keys[n]) <= lr THEN row[last(keys[n])] ELSE <<>>,
                  keyIsNone |-> FALSE, valueIsNone |-> last(keys[n]) > lr]]
    IN  IF lf < lr
        THEN Append(d, [key |-> <<>>, value |-> <<>>, keyIsNone |-> TRUE, valueIsNone |-> FALSE])
        ELSE d

\* csv.DictReader(io.StringIO(text)): fieldnames is the first row (None when
\* there is none); the rows that are [] are skipped.  raised is what the
\* underlying reader raises after these rows.
DictReaderOf(reader) ==
    LET nonblank(r) == r # <<>>
        data == SelectSeq(Tail(reader.rows), nonblank)
    IN  IF reader.rows = <<>>
        THEN [fieldnamesIsNone |-> TRUE, fieldnames |-> <<>>, rows |-> <<>>,
              raised |-> reader.raised]
        ELSE [fieldnamesIsNone |-> FALSE, fieldnames |-> reader.rows[1],
              rows |-> [n \in 1..Len(data) |-> DictRow(reader.rows[1], data[n])],
              raised |-> reader.raised]
DictReader(text) == DictReaderOf(csv_reader(text, ","))

(***************************************************************************)
(* DefaultCSVParser                                                        *)
(***************************************************************************)
REQUIRED_FIELDS ==
    <<"date", "item_name", "quantity", "unit_price", "total_price", "shipping_cost", "post_code">>
OPTIONAL_FIELDS == <<"currency">>
DATE_FORMATS == << <<"%", "Y", "-", "%", "m", "-", "%", "d">>,
                   <<"%", "d", "/", "%", "m", "/", "%", "Y">>,
                   <<"%", "m", "/", "%", "d", "/", "%", "Y">> >>
GBP == <<"G", "B", "P">>


\* What a call returns, or the exception it raises ("none": it returned).  An
\* error is the Python string in text; kind, row and msgs say how it was built:
\* which message it is and, for a "Row <n>: " message, its n and the field
\* messages joined after the prefix (0 and <<>> otherwise).
Returned(records, errors) == [raised |-> "none", records |-> records, errors |-> errors]
Raised(exc) == [raised |-> exc, records |-> <<>>, errors |-> <<>>]
Error(kind, row, text) == [kind |-> kind, row |-> row, msgs |-> <<>>, text |-> text]

\* records: list[dict] = [] at the start of each call
InitialRecords == <<>>
\* errors: list[str] = [] at the start of each call
InitialErrors == <<>>

EmptyDict == [k \in {} |-> <<>>]

\* the (row_errors, parsed) pair of one row; raised is the exception that
\* escaped while the row was coerced, "none" if there was none
RowState(parsed, row_errors, raised) ==
    [parsed |-> parsed, row_errors |-> row_errors, raised |-> raised]
AddError(st, msg) == [st EXCEPT !.row_errors = Append(@, msg)]
\* parsed[k] = v
SetParsed(st, k, v) == [st EXCEPT !.parsed = (k :> v) @@ @]

\* the date branch of the profile loop
\* except ValueError: an re.error raised by strptime escapes
StoreDate(st, r) ==
    IF r.error = "error" THEN [st EXCEPT !.raised = "error"]
    ELSE IF r.ok THEN SetParsed(st, "date", r.date)
    ELSE AddError(st, "invalid date format")
CoerceDate(st, raw_value, date_format) ==
    IF raw_value = <<>> THEN AddError(st, "invalid date format")
    ELSE StoreDate(st, Strptime(raw_value, date_format))

\* item_name and post_code must be non-empty
CoerceItemName(st, raw_value) ==
    IF raw_value = <<>> THEN AddError(st, "item_name is required")
    ELSE SetParsed(st, "item_name", raw_value)

\* int(); the value is stored before the sign is looked at
CoerceQuantity(st, field, raw_value) ==
    LET r == PyInt(raw_value)
    IN  IF ~r.ok THEN AddError(st, "invalid " \o field)
        ELSE IF r.val < 0
        THEN AddError(SetParsed(st, field, r.val), field \o " must be non-negative")
        ELSE SetParsed(st, field, r.val)

\* Decimal(); only InvalidOperation is an error
CoerceDecimal(st, field_name, raw_value) ==
    LET r == Decimal(raw_value)
    IN  IF r.ok THEN SetParsed(st, field_name, [kind |-> r.kind, sign |-> r.sign,
                                                coef |-> r.coef, exp |-> r.exp])
        ELSE AddError(st, "invalid " \o field_name)

CoercePostCode(st, raw_value) ==
    IF raw_value = <<>> THEN AddError(st, "post_code is required")
    ELSE LET match == POSTCODE_RE_search(raw_value)
         IN  IF match.found THEN SetParsed(st, "post_code", PyStrip(match.group0))
             ELSE SetParsed(st, "post_code", raw_value)

\* (variant: a blank cell is stored as it is)
CoerceCurrency_noDefault(st, raw_value) == SetParsed(st, "currency", raw_value)
\* parsed["currency"] = raw_value if raw_value else "GBP"
CoerceCurrency(st, raw_value) ==
    SetParsed(st, "currency", IF raw_value # <<>> THEN raw_value ELSE GBP)

\* the if/elif chain on field_name inside the profile loop
CoerceField(st, field_name, raw_value, date_format) ==
    IF field_name = "date" THEN CoerceDate(st, raw_value, date_format)
    ELSE IF field_name = "item_name" THEN CoerceItemName(st, raw_value)
    ELSE IF field_name = "quantity" THEN CoerceQuantity(st, "quantity", raw_value)
    ELSE IF field_name \in {"unit_price", "total_price", "shipping_cost"}
    THEN CoerceDecimal(st, field_name, raw_value)
    ELSE IF field_name = "post_code" THEN CoercePostCode(st, raw_value)
    ELSE IF field_name = "currency" THEN CoerceCurrency(st, raw_value)
    ELSE SetParsed(st, field_name, raw_value)

\* if col_index >= len(row)
RowIndexOutOfRange(col_index, row) == col_index >= Len(row)

\* for col_index_str, field_name in mappings.items(): from the k-th item on
RECURSIVE MappingLoop(_, _, _, _, _)
RECURSIVE MappingStep(_, _, _, _, _, _)
MappingLoop(row, mappings, date_format, k, st) ==
    IF k > Len(mappings) \/ st.raised # "none" THEN st
    ELSE MappingStep(row, mappings, date_format, k, st, PyInt(mappings[k].key))
\* one item of the mapping, idx being int(col_index_str)
MappingStep(row, mappings, date_format, k, st, idx) ==
    IF ~idx.ok THEN [st EXCEPT !.raised = "ValueError"]
    ELSE IF RowIndexOutOfRange(idx.val, row)
    THEN MappingLoop(row, mappings, date_format, k + 1,
             AddError(st, "Column " \o ToString(idx.val) \o " out of range"))
    ELSE IF idx.val < 0 - Len(row)
    THEN [st EXCEPT !.raised = "IndexError"]
    ELSE MappingLoop(row, mappings, date_format, k + 1,
             CoerceField(st, mappings[k].field,
                         PyStrip(IF idx.val >= 0 THEN row[idx.val + 1]
                                 ELSE row[Len(row) + idx.val + 1]),
                         date_format))

MappedFields(mappings) == {mappings[k].field : k \in 1..Len(mappings)}

\* required_model_fields - mapped_fields
MissingRequired(mapped_fields) == Range(REQUIRED_FIELDS) \ mapped_fields

\* one data row in profile mode, up to the currency default
\* if "currency" not in parsed and "currency" not in mapped_fields
DefaultCurrency(st, mapped_fields) ==
    IF st.raised = "none"
       /\ "currency" \notin DOMAIN st.parsed
       /\ "currency" \notin mapped_fields
    THEN SetParsed(st, "currency", GBP)
    ELSE st

ProfileRow(row, mappings, date_format) ==
    DefaultCurrency(MappingLoop(row, mappings, date_format, 1, RowState(EmptyDict, <<>>, "none")),
                    MappedFields(mappings))

RowError(row_num, row_errors) ==
    [kind |-> "row", row |-> row_num, msgs |-> row_errors,
     text |-> "Row " \o ToString(row_num) \o ": " \o JoinStr(row_errors, "; ")]

\* (variant: the newest error or record is put first)
Collect_newestFirst(out, row_num, st) ==
    IF st.raised # "none" THEN Raised(st.raised)
    ELSE IF st.row_errors # <<>>
    THEN [out EXCEPT !.errors = <<RowError(row_num, st.row_errors)>> \o @]
    ELSE [out EXCEPT !.records = <<st.parsed>> \o @]
\* if row_errors: errors.append(...) else: records.append(parsed)
Collect(out, row_num, st) ==
    IF st.raised # "none" THEN Raised(st.raised)
    ELSE IF st.row_errors # <<>>
    THEN [out EXCEPT !.errors = Append(@, RowError(row_num, st.row_errors))]
    ELSE [out EXCEPT !.records = Append(@, st.parsed)]

\* for row_num, row in enumerate(data_rows, start=2): from the n-th data row on
RECURSIVE ProfileRows(_, _, _, _, _)
ProfileRows(data_rows, mappings, date_format, n, out) ==
    IF n > Len(data_rows) \/ out.raised # "none" THEN out
    ELSE ProfileRows(data_rows, mappings, date_format, n + 1,
             Collect(out, n + 1, ProfileRow(data_rows[n], mappings, date_format)))

\* if col_index >= len(csv_headers)
HeaderIndexOutOfRange(col_index, csv_headers) == col_index >= Len(csv_headers)

\* the first mapping key, in the mapping's order, whose check ends the loop over
\* the header: 0 if every index is inside the header
FirstBadKey(mappings, csv_headers) ==
    LET stops(k) == \/ ~PyInt(mappings[k].key).ok
                    \/ HeaderIndexOutOfRange(PyInt(mappings[k].key).val, csv_headers)
        bad == {k \in 1..Len(mappings) : stops(k)}
    IN  IF bad = {} THEN 0 ELSE CHOOSE k \in bad : \A j \in bad : k <= j

EmptyFile ==
    Returned(InitialRecords,
        Append(InitialErrors, Error("empty", 0, "CSV file is empty or has no header row.")))

\* the header check, then the rows; bad is the first offending mapping item
CheckedRows(profile, all_rows, bad) ==
    LET idx == PyInt(profile.field_mappings[bad].key)
    IN  IF bad # 0
        THEN IF ~idx.ok THEN Raised("ValueError")
             ELSE Returned(InitialRecords,
                      Append(InitialErrors,
                             Error("index_out_of_range", 0,
                                   "Column index " \o ToString(idx.val)
                                       \o " is out of range (CSV has "
                                       \o ToString(Len(all_rows[1])) \o " columns).")))
        ELSE ProfileRows(Tail(all_rows), profile.field_mappings, profile.date_format, 1,
                         Returned(InitialRecords, InitialErrors))

\* _parse_with_profile from all_rows = list(reader) on
ParsedRows(profile, all_rows) ==
    LET missing_required == MissingRequired(MappedFields(profile.field_mappings))
    IN  IF all_rows = <<>> THEN EmptyFile
        ELSE IF missing_required # {}
        THEN Returned(InitialRecords,
                 Append(InitialErrors,
                        Error("missing_mappings", 0,
                              "Missing required field mappings: "
                                  \o JoinStr(Sorted(missing_required), ", "))))
        ELSE CheckedRows(profile, all_rows, FirstBadKey(profile.field_mappings, all_rows[1]))

\* (variant: the two-character escape is used as it is)
Delimiter_literal(profile) == profile.delimiter
\* delimiter = profile.delimiter; if delimiter == "\\t": delimiter = "\t"
Delimiter(profile) == IF profile.delimiter = <<"\\", "t">> THEN <<"\t">> ELSE profile.delimiter

\* rows = list(reader) raises what the reader raises
ListedRows(profile, reader) ==
    IF reader.raised # "none" THEN Raised(reader.raised) ELSE ParsedRows(profile, reader.rows)
_parse_with_profile(self, text) ==
    IF Len(Delimiter(self.profile)) # 1 THEN Raised("TypeError")
    ELSE ListedRows(self.profile, csv_reader(text, Delimiter(self.profile)[1]))

\* self._parse_date(value): the first of DATE_FORMATS that parses value, from
\* the k-th on; ok = FALSE stands for None
RECURSIVE TryDateFormats(_, _)
\* return ... if strptime gave r, except ValueError: continue
ParsedOrNext(r, value, k) == IF r.ok THEN r ELSE TryDateFormats(value, k + 1)
TryDateFormats(value, k) ==
    IF k > Len(DATE_FORMATS) THEN NoDate
    ELSE ParsedOrNext(Strptime(value, DATE_FORMATS[k]), value, k)

_parse_date(value) ==
    LET v == PyStrip(value)
    IN  IF v = <<>> THEN NoDate ELSE TryDateFormats(v, 1)

\* (variant: the keys are trimmed but keep their letter case)
NormaliseRow_caseKept(items) ==
    [i \in 1..Len(items) |->
        [key |-> Str(PyStrip(items[i].key)), value |-> PyStrip(items[i].value)]]
\* normalised_row = {k.strip().lower(): v.strip() for k, v in row.items()}
NormaliseRow(items) ==
    [i \in 1..Len(items) |->
        [key |-> Str(PyLower(PyStrip(items[i].key))), value |-> PyStrip(items[i].value)]]

\* normalised_row.get(name, ""): the value of the last item with that key
RowGet(normalised_row, name) ==
    LET hits == {i \in 1..Len(normalised_row) : normalised_row[i].key = name}
    IN  IF hits = {} THEN <<>>
        ELSE normalised_row[CHOOSE i \in hits : \A j \in hits : j <= i].value

\* the fields of a normalised row, coerced in the order of the code
LegacyFields(normalised_row) ==
         LET s1 == StoreDate(RowState(EmptyDict, <<>>, "none"),
                             _parse_date(RowGet(normalised_row, "date")))
             s2 == CoerceItemName(s1, PyStrip(RowGet(normalised_row, "item_name")))
             s3 == CoerceQuantity(s2, "quantity", PyStrip(RowGet(normalised_row, "quantity")))
             s4 == CoerceDecimal(s3, "unit_price", PyStrip(RowGet(normalised_row, "unit_price")))
             s5 == CoerceDecimal(s4, "total_price", PyStrip(RowGet(normalised_row, "total_price")))
             s6 == CoerceDecimal(s5, "shipping_cost",
                                 PyStrip(RowGet(normalised_row, "shipping_cost")))
             s7 == CoercePostCode(s6, PyStrip(RowGet(normalised_row, "post_code")))
         IN  CoerceCurrency(s7, PyStrip(RowGet(normalised_row, "currency")))

\* one row of the legacy loop: k.strip() or v.strip() on None raises
\* AttributeError, otherwise the fields are coerced in the order of the code
LegacyRow(items) ==
    IF \E i \in 1..Len(items) : items[i].keyIsNone \/ items[i].valueIsNone
    THEN RowState(EmptyDict, <<>>, "AttributeError")
    ELSE LegacyFields(NormaliseRow(items))

\* for row_num, row in enumerate(reader, start=2): from the n-th row on
RECURSIVE LegacyRows(_, _, _)
LegacyRows(rows, n, out) ==
    IF n > Len(rows) \/ out.raised # "none" THEN out
    ELSE LegacyRows(rows, n + 1, Collect(out, n + 1, LegacyRow(rows[n])))

\* _parse_legacy from reader = csv.DictReader(...) on; the reader is read row
\* by row, so what it raises comes after the rows it has yielded
AfterRows(reader, read) ==
    IF read.raised = "none" /\ reader.raised # "none" THEN Raised(reader.raised) ELSE read
ReadLegacy(reader) ==
    LET normalised_fieldnames ==
            {Str(PyLower(PyStrip(reader.fieldnames[i]))) : i \in 1..Len(reader.fieldnames)}
        absent(f) == f \notin normalised_fieldnames
        missing == SelectSeq(REQUIRED_FIELDS, absent)
    IN  IF reader.fieldnamesIsNone
        THEN IF reader.raised # "none" THEN Raised(reader.raised) ELSE EmptyFile
        ELSE IF missing # <<>>
        THEN Returned(InitialRecords,
                 Append(InitialErrors,
                        Error("missing_columns", 0,
                              "Missing required columns: " \o JoinStr(missing, ", "))))
        ELSE AfterRows(reader,
                       LegacyRows(reader.rows, 1, Returned(InitialRecords, InitialErrors)))

_parse_legacy(self, text) == ReadLegacy(DictReader(text))

\* DefaultCSVParser.parse
parse(self, text) ==
    IF ~self.profile.isNone THEN _parse_with_profile(self, text)
    ELSE _parse_legacy(self, text)

(***************************************************************************)
(* Inputs: cells, rows, files and profiles                                 *)
(***************************************************************************)
MaxRows == 3
MaxEdits == 2

\* the cells of the data rows
Cells ==
    [date_iso |-> <<"2", "0", "2", "4", "-", "0", "1", "-", "1", "5">>,
     date_dmy |-> <<"1", "5", "/", "0", "1", "/", "2", "0", "2", "4">>,
     item |-> <<"W">>,
     qty |-> <<"1", "0">>,
     qty_neg |-> <<"-", "1">>,
     price |-> <<"5", ".", "0">>,
     price_neg |-> <<"-", "5", ".", "0">>,
     price_nan |-> <<"N", "a", "N">>,
     post_code |-> <<"S", "W", "1", "A", " ", "1", "A", "A">>,
     currency |-> <<"U", "S", "D">>]

\* the cells of the header rows
HeaderCells ==
    [date |-> <<"d", "a", "t", "e">>,
     item_name |-> <<"i", "t", "e", "m", "_", "n", "a", "m", "e">>,
     quantity |-> <<"q", "u", "a", "n", "t", "i", "t", "y">>,
     unit_price |-> <<"u", "n", "i", "t", "_", "p", "r", "i", "c", "e">>,
     total_price |-> <<"t", "o", "t", "a", "l", "_", "p", "r", "i", "c", "e">>,
     shipping_cost |-> <<"s", "h", "i", "p", "p", "i", "n", "g", "_", "c", "o", "s", "t">>,
     post_code |-> <<"p", "o", "s", "t", "_", "c", "o", "d", "e">>,
     currency |-> <<"c", "u", "r", "r", "e", "n", "c", "y">>]

HeaderFull ==
    <<HeaderCells.date, HeaderCells.item_name, HeaderCells.quantity, HeaderCells.unit_price,
      HeaderCells.total_price, HeaderCells.shipping_cost, HeaderCells.post_code>>
\* the full header, with a currency column added, and with columns missing
Headers ==
    { HeaderFull,
      Append(HeaderFull, HeaderCells.currency),
      <<HeaderCells.date, HeaderCells.item_name, HeaderCells.quantity>> }

ValidRow ==
    <<Cells.date_iso, Cells.item, Cells.qty, Cells.price, Cells.price, Cells.price,
      Cells.post_code>>
NegativePriceRow == [ValidRow EXCEPT ![4] = Cells.price_neg, ![6] = Cells.price_nan]
TwoErrorsRow == [ValidRow EXCEPT ![1] = <<"x">>, ![3] = Cells.qty_neg]
ShortRow == <<Cells.date_iso, Cells.item, Cells.qty>>
LongRow == Append(ValidRow, Cells.currency)
\* the last one is a blank line of the file
DataRows == {ValidRow, NegativePriceRow, TwoErrorsRow, ShortRow, LongRow, <<>>}

RECURSIVE Concat(_)
Concat(seqs) == IF seqs = <<>> THEN <<>> ELSE Head(seqs) \o Concat(Tail(seqs))

\* a cell as a csv writer renders it: as it is, or between quotes with its
\* quotes doubled when it holds the delimiter, a quote or a line break
WrittenCell(cell, delimiter) ==
    IF \E i \in 1..Len(cell) : cell[i] \in {delimiter, "\"", "\r", "\n"}
    THEN <<"\"">> \o Concat([i \in 1..Len(cell) |->
                                 IF cell[i] = "\"" THEN <<"\"", "\"">> ELSE <<cell[i]>>])
              \o <<"\"">>
    ELSE cell

\* the cells of a row joined by the delimiter; a row of one empty cell is
\* written as an empty quoted cell
RECURSIVE JoinCells(_, _)
JoinCells(cells, delimiter) ==
    IF cells = <<>> THEN <<>>
    ELSE IF cells = << <<>> >> THEN <<"\"", "\"">>
    ELSE IF Len(cells) = 1 THEN WrittenCell(cells[1], delimiter)
    ELSE WrittenCell(cells[1], delimiter) \o <<delimiter>>
             \o JoinCells(Tail(cells), delimiter)

\* the text of a file: every row on a line of its own
RECURSIVE FileText(_, _)
FileText(rows, delimiter) ==
    IF rows = <<>> THEN <<>>
    ELSE JoinCells(rows[1], delimiter) \o <<"\n">> \o FileText(Tail(rows), delimiter)

RowSeqs(S, n) == UNION {[1..k -> S] : k \in 0..n}

\* the uploaded texts: the empty file, a lone line break, and a header followed
\* by up to n data rows
FilesUpTo(hs, S, n) ==
    {<<>>, <<"\n">>} \cup {FileText(<<h>> \o rs, ",") : h \in hs, rs \in RowSeqs(S, n)}

\* Texts that are no plain join of cells: lines ended by "\r\n"; a quoted
\* cell that holds the delimiter; a quote that is never closed, so that the
\* cell runs to the end of the file; and a carriage return inside a line,
\* after a valid row or after a short one.
RECURSIVE CrLf(_)
CrLf(text) ==
    IF Len(text) = 0 THEN <<>>
    ELSE IF Len(text) = 1 THEN (IF text[1] = "\n" THEN <<"\r", "\n">> ELSE text)
    ELSE CrLf(SubSeq(text, 1, Len(text) \div 2))
             \o CrLf(SubSeq(text, Len(text) \div 2 + 1, Len(text)))
QuotedRow == [i \in 1..7 |-> IF i = 2 THEN <<"W", ",", " ", "L">> ELSE ValidRow[i]]
CrLfFile == CrLf(FileText(<<HeaderFull, ValidRow, TwoErrorsRow>>, ","))
QuotedFile == FileText(<<HeaderFull, QuotedRow, TwoErrorsRow>>, ",")
OpenQuoteFile ==
    FileText(<<HeaderFull>>, ",") \o Cells.date_iso \o <<",", "\"">>
        \o FileText(<<SubSeq(ValidRow, 2, 7), ValidRow>>, ",")
StrayCrFile ==
    FileText(<<HeaderFull, ValidRow>>, ",") \o Cells.date_iso \o <<",", "W", "\r", "X", ",">>
        \o FileText(<<SubSeq(ValidRow, 3, 7)>>, ",")
StrayCrShortFile ==
    FileText(<<HeaderFull, ShortRow>>, ",") \o Cells.date_iso \o <<",", "W", "\r", "X", ",">>
        \o FileText(<<SubSeq(ValidRow, 3, 7)>>, ",")
ExtraFiles == {CrLfFile, QuotedFile, OpenQuoteFile, StrayCrFile, StrayCrShortFile}

Files == FilesUpTo(Headers, DataRows, MaxRows) \cup ExtraFiles

Mapping(keys, fields) == [k \in 1..Len(keys) |-> [key |-> keys[k], field |-> fields[k]]]
Profile(delimiter, date_format, field_mappings) ==
    [isNone |-> FALSE, delimiter |-> delimiter, date_format |-> date_format,
     field_mappings |-> field_mappings]
NoProfile == [isNone |-> TRUE, delimiter |-> <<>>, date_format |-> <<>>, field_mappings |-> <<>>]

StandardMapping ==
    Mapping(<< <<"0">>, <<"1">>, <<"2">>, <<"3">>, <<"4">>, <<"5">>, <<"6">> >>, REQUIRED_FIELDS)
\* the mapping of the model tests: every field without a default, no shipping_cost
NoShippingMapping ==
    Mapping(<< <<"0">>, <<"1">>, <<"2">>, <<"3">>, <<"4">>, <<"6">> >>,
            <<"date", "item_name", "quantity", "unit_price", "total_price", "post_code">>)
WithCurrencyMapping == Append(StandardMapping, [key |-> <<"7">>, field |-> "currency"])
FarColumnMapping == <<[key |-> <<"1", "0">>, field |-> "currency"]>> \o WithCurrencyMapping

Profiles ==
    { Profile(<<",">>, DATE_FORMATS[1], StandardMapping),
      Profile(<<",">>, DATE_FORMATS[1], NoShippingMapping),
      Profile(<<",">>, DATE_FORMATS[1], WithCurrencyMapping),
      Profile(<<",">>, DATE_FORMATS[2], FarColumnMapping),
      Profile(<<";">>, DATE_FORMATS[1], StandardMapping) }

ParserIds == {1, 2}

(***************************************************************************)
(* The parser as a state machine                                           *)
(***************************************************************************)
NotCalled == [raised |-> "not called", records |-> <<>>, errors |-> <<>>]
NoRows == [uploads |-> <<>>, sales |-> <<>>, purchase |-> <<>>]
NoCandidate == [record_type |-> "sales", kind |-> "dict", items |-> <<>>]
NoVerdict == [state |-> "unvalidated", key |-> "", reported |-> {}, message |-> ""]
NoRequest == [op |-> "none"]
NoResponse == [status |-> 0]
NoPending == [selected |-> {}]

\* an empty database and no request made to the admin site
EmptySite ==
    /\ table = <<>>
    /\ request = NoRequest
    /\ response = NoResponse
    /\ pending = NoPending

\* DefaultCSVParser(profile), twice with the same profile (None: legacy mode)
Init ==
    /\ built \in Profiles \cup {NoProfile}
    /\ parsers = [i \in ParserIds |-> [profile |-> built]]
    /\ file_content = <<>>
    /\ outcome = NotCalled
    /\ stored = NoRows
    /\ calls = 0
    /\ candidate = NoCandidate
    /\ verdict = NoVerdict
    /\ edits = 0
    /\ EmptySite

\* parsers[i].parse(text)
Parse(i, text) ==
    /\ outcome' = parse(parsers[i], text)
    /\ file_content' = text
    /\ calls' = calls + 1
    /\ UNCHANGED <<parsers, built, candidate, verdict, edits>>
    /\ UNCHANGED adminVars

\* one upload: a single parse() of any file
Upload ==
    /\ calls = 0
    /\ \E text \in Files : Parse(1, text)

Next == Upload

Spec == Init /\ [][Next]_vars

(***************************************************************************)
(* Uploads that vary one cell of a row                                     *)
(***************************************************************************)
MaxCellRows == 1

HeaderWithCurrency == Append(HeaderFull, HeaderCells.currency)
CellHeaders == {HeaderFull, HeaderWithCurrency}

\* a (column, cell) pair: the cell that replaces that column of a valid row
Variant(col, cells) == {[col |-> col, cell |-> c] : c \in cells}
\* the last two are padded with a no-break space and a form feed
QuantityCells ==
    { Cells.qty_neg, <<>>, <<"x">>, <<"1", ".", "5">>, <<" ", "7", " ">>, <<"-", "0">>, <<"1", "_", "0">>,
      <<" ", "5">>, <<"6", "\f">> }
ShippingCells == { <<>>, <<" ">>, <<"a", "b", "c">>, <<"0">> }
CurrencyCells == { <<>>, <<" ">>, <<" ", "E", "U", "R", " ">> }
PostCodeCells ==
    { <<"1", "0", " ", "D", "o", "w", "n", "i", "n", "g", " ", "S", "t", "r", "e", "e", "t", " ", "S", "W", "1", "A", " ", "2", "A", "A">>,
      <<"1", "2", "3", "4", "5">>, <<"G", "I", "R", " ", "0", "A", "A">>,
      <<"S", "I", "1", " ", "1", "A", "A">>, <<"X", "A", "B", "C", " ", "1", "D", "E">>,
      <<" ", "m", "1", " ", "1", "a", "a", " ">>, <<>>, <<" ">>,
      <<"S", "W", "1", "A", "\f", "1", "A", "A">> }
\* dates in each of the three notations, one that two notations read, one
\* that no calendar has, and blank ones
DateCells ==
    { Cells.date_dmy, <<"0", "1", "/", "1", "3", "/", "2", "0", "2", "4">>,
      <<"0", "1", "/", "0", "2", "/", "2", "0", "2", "4">>,
      <<"3", "1", "/", "0", "2", "/", "2", "0", "2", "4">>,
      <<" ">> \o Cells.date_iso \o <<" ">>, <<"x">>, <<>>, <<" ">> }
ItemCells == { <<>>, <<" ", " ">>, <<" ", "W", " ", "2", " ">> }
CellVariants ==
    Variant(1, DateCells) \cup Variant(2, ItemCells)
        \cup Variant(3, QuantityCells) \cup Variant(6, ShippingCells)
        \cup Variant(7, PostCodeCells) \cup Variant(8, CurrencyCells)

\* the data rows under the header h: a valid row as wide as h with one cell
\* replaced, and rows narrower or wider than h
CellRowsFor(h) ==
    {[i \in 1..Len(h) |-> IF i = v.col THEN v.cell ELSE LongRow[i]] : v \in CellVariants}
        \cup {ValidRow, LongRow, <<Cells.date_iso, Cells.item, Cells.qty_neg>>,
              << <<>>, <<" ">>, Cells.qty >>}
CellFiles ==
    UNION {{FileText(<<h>> \o rs, ",") : rs \in RowSeqs(CellRowsFor(h), MaxCellRows)} :
              h \in CellHeaders}

CellProfiles ==
    { Profile(<<",">>, DATE_FORMATS[1], StandardMapping),
      Profile(<<",">>, DATE_FORMATS[1], NoShippingMapping),
      Profile(<<",">>, DATE_FORMATS[1], WithCurrencyMapping),
      Profile(<<",">>, DATE_FORMATS[2], StandardMapping),
      Profile(<<",">>, DATE_FORMATS[3], StandardMapping),
      Profile(<<"\\", "t">>, DATE_FORMATS[1], StandardMapping) }

\* DefaultCSVParser(profile) for the profile p (None: legacy mode)
Built(p) ==
    /\ built = p
    /\ parsers = [i \in ParserIds |-> [profile |-> built]]
    /\ file_content = <<>>
    /\ outcome = NotCalled
    /\ stored = NoRows
    /\ calls = 0
    /\ candidate = NoCandidate
    /\ verdict = NoVerdict
    /\ edits = 0
    /\ EmptySite

InitCells == \E p \in CellProfiles \cup {NoProfile} : Built(p)

UploadCells ==
    /\ calls = 0
    /\ \E text \in CellFiles : Parse(1, text)

\* header rows that differ from the required names by letter case and
\* surrounding whitespace, header rows that lack a required name, and header
\* rows that hold a name twice
DecoratedHeader ==
    << <<" ", "D", "a", "t", "e">>, <<"I", "T", "E", "M", "_", "N", "A", "M", "E", " ">>, <<"Q", "u", "a", "n", "t", "i", "t", "y">>, HeaderCells.unit_price,
       <<"T", "o", "t", "a", "l", "_", "P", "r", "i", "c", "e">>, HeaderCells.shipping_cost, <<" ", "P", "O", "S", "T", "_", "C", "O", "D", "E", " ">> >>
LegacyHeaders ==
    { DecoratedHeader,
      Append(DecoratedHeader, <<" ", "C", "u", "r", "r", "e", "n", "c", "y", " ">>),
      SubSeq(DecoratedHeader, 1, 5),
      [DecoratedHeader EXCEPT ![7] = <<"p", "o", "s", "t", "c", "o", "d", "e">>],
      [DecoratedHeader EXCEPT ![2] = <<"i", "t", "e", "m", " ", "n", "a", "m", "e">>],
      Append(DecoratedHeader, DecoratedHeader[1]),
      Append(DecoratedHeader, HeaderCells.date) }
\* the data rows under them: valid, with padded cells, with an extra cell,
\* and failing
LegacyRowsUnder ==
    { ValidRow, [ValidRow EXCEPT ![2] = <<" ", "W", " ">>, ![3] = <<" ", "1", "0">>], LongRow, TwoErrorsRow }
HeaderFiles ==
    {FileText(<<h>> \o rs, ",") : h \in LegacyHeaders, rs \in RowSeqs(LegacyRowsUnder, MaxCellRows)}

UploadHeaders ==
    /\ calls = 0
    /\ \E text \in HeaderFiles : Parse(1, text)

\* the files of tab-separated rows
TabFiles ==
    {FileText(<<h>> \o rs, "\t") : h \in Headers, rs \in RowSeqs(DataRows, MaxCellRows)}

UploadTabbed ==
    /\ calls = 0
    /\ \E text \in TabFiles : Parse(1, text)

NextCells == UploadCells \/ UploadHeaders \/ UploadTabbed

SpecCells == InitCells /\ [][NextCells]_vars

(***************************************************************************)
(* Profiles read from storage whose keys clean() would not have accepted   *)
(***************************************************************************)
\* the standard mapping with the key of post_code replaced
KeyedMapping(key) == [StandardMapping EXCEPT ![7] = [key |-> key, field |-> "post_code"]]
StoredKeys == { <<"6">>, <<"-", "1">>, <<" ", "6">>, <<"+", "6">>, HeaderCells.post_code, <<>> }
StoredProfiles == {Profile(<<",">>, DATE_FORMATS[1], KeyedMapping(key)) : key \in StoredKeys}

InitStored == \E p \in StoredProfiles : Built(p)

UploadStored ==
    /\ calls = 0
    /\ \E text \in Files : Parse(1, text)

NextStored == UploadStored

SpecStored == InitStored /\ [][NextStored]_vars

(***************************************************************************)
(* The admin site: stored profiles, their actions and the upload form      *)
(***************************************************************************)
MaxProfiles == 4

\* the CSVFormatProfile rows an administrator adds; is_active is a check box
\* of the form
StoredProfile(name, record_type, delimiter, date_format, field_mappings, is_active) ==
    [name |-> name, record_type |-> record_type, delimiter |-> delimiter,
     date_format |-> date_format, field_mappings |-> field_mappings, is_active |-> is_active]
NewProfiles ==
    { StoredProfile(<<"A">>, "sales", <<",">>, DATE_FORMATS[1], StandardMapping, TRUE),
      StoredProfile(<<"B">>, "purchase", <<";">>, DATE_FORMATS[2], WithCurrencyMapping, FALSE) }

\* Model.save(): a row without a primary key (None is 0 here) is inserted
\* under the next key, a row with one replaces the row of that key
Save(rows, pk, row) == IF pk = 0 THEN Append(rows, row) ELSE [rows EXCEPT ![pk] = row]

\* class Meta: ordering = ["name"]: names compared character by character
RECURSIVE NameBefore(_, _)
NameBefore(a, b) ==
    IF b = <<>> THEN FALSE
    ELSE IF a = <<>> THEN TRUE
    ELSE IF a[1] # b[1] THEN Ord[a[1]] < Ord[b[1]]
    ELSE NameBefore(Tail(a), Tail(b))
\* the orders in which a queryset may yield the selected rows: by name, rows
\* of the same name in any order
QuerysetOrders(rows, selected) ==
    {o \in [1..Cardinality(selected) -> selected] :
        /\ \A i, j \in DOMAIN o : i # j => o[i] # o[j]
        /\ \A i, j \in DOMAIN o : i < j => ~NameBefore(rows[o[j]].name, rows[o[i]].name)}

CopySuffix == <<" ", "(", "c", "o", "p", "y", ")">>
\* (variant: the primary key is kept, so that save() replaces the row)
DuplicateOne_pkKept(rows, profile, pk) == Save(rows, pk, [profile EXCEPT !.name = @ \o CopySuffix])
\* profile.pk = None; profile.name = f"{profile.name} (copy)"; profile.save()
DuplicateOne(rows, profile, pk) == Save(rows, 0, [profile EXCEPT !.name = @ \o CopySuffix])

\* queryset.update(is_active=value)
Update(rows, selected, value) ==
    [pk \in 1..Len(rows) |-> IF pk \in selected THEN [rows[pk] EXCEPT !.is_active = value]
                             ELSE rows[pk]]

\* self.message_user(request, f"Successfully ... {n} profile(s).", messages.SUCCESS)
Message(text, n) == [status |-> 302, message |-> text \o ToString(n) \o " profile(s)."]

\* the rows ticked in the change list
Selections(rows) == (SUBSET (1..Len(rows))) \ {{}}

\* a step of the admin site for the request req: it leaves the parsers, the
\* form being edited and the uploads and records in the database alone
Served(req) ==
    /\ request' = req
    /\ UNCHANGED parseVars
    /\ UNCHANGED <<candidate, verdict, stored>>
\* a request that is answered in one step
Requested(req) == Served(req) /\ UNCHANGED pending

\* the saves the duplication being carried out has still to make
Unsaved == IF pending = NoPending THEN 0 ELSE Len(pending.instances) - pending.duplicated

\* the add form of CSVFormatProfile, saved
CreateProfile ==
    /\ Len(table) + Unsaved < MaxProfiles
    /\ \E row \in NewProfiles :
          /\ table' = Save(table, 0, row)
          /\ Requested([op |-> "create", row |-> row])
    /\ response' = [status |-> 302]
    /\ UNCHANGED edits

\* the change form of the profile pk, saved with another name, delimiter and
\* mapping
Changed(profile) ==
    [profile EXCEPT !.name = <<"B">>, !.delimiter = <<"|">>, !.field_mappings = NoShippingMapping]
ChangeProfile ==
    /\ edits < MaxEdits
    /\ \E pk \in 1..Len(table) :
          /\ table' = Save(table, pk, Changed(table[pk]))
          /\ Requested([op |-> "change", pk |-> pk])
    /\ response' = [status |-> 302]
    /\ edits' = edits + 1

\* CSVFormatProfileAdmin.duplicate_profile up to "for profile in queryset": the
\* selected rows are read from storage into instances, in the order of the
\* queryset.  One duplication is carried out at a time; the requests that are
\* answered in one step may be served between its steps.
DuplicateProfile ==
    /\ pending = NoPending
    /\ \E selected \in Selections(table) :
          /\ Len(table) + Cardinality(selected) <= MaxProfiles
          /\ \E order \in QuerysetOrders(table, selected) :
                pending' = [selected |-> selected, pks |-> order,
                            instances |-> [k \in DOMAIN order |-> table[order[k]]],
                            duplicated |-> 0]
          /\ Served([op |-> "duplicate", selected |-> selected])
    /\ response' = NoResponse
    /\ UNCHANGED <<table, edits>>

\* one pass of the loop of duplicate_profile: the next instance is saved as a
\* new row; duplicated += 1
SaveCopy ==
    /\ pending # NoPending
    /\ pending.duplicated < Len(pending.instances)
    /\ table' = DuplicateOne(table, pending.instances[pending.duplicated + 1],
                             pending.pks[pending.duplicated + 1])
    /\ pending' = [pending EXCEPT !.duplicated = @ + 1]
    /\ Served([op |-> "duplicate", selected |-> pending.selected])
    /\ response' = NoResponse
    /\ UNCHANGED edits

\* duplicate_profile after the loop: the message
AnswerDuplicate ==
    /\ pending # NoPending
    /\ pending.duplicated = Len(pending.instances)
    /\ response' = Message("Successfully duplicated ", pending.duplicated)
    /\ pending' = NoPending
    /\ Served([op |-> "duplicate", selected |-> pending.selected])
    /\ UNCHANGED <<table, edits>>

\* CSVFormatProfileAdmin.activate_profiles
ActivateProfiles ==
    /\ \E selected \in Selections(table) :
          /\ table' = Update(table, selected, TRUE)
          /\ Requested([op |-> "activate", selected |-> selected])
          /\ response' = Message("Successfully activated ", Cardinality(selected))
    /\ UNCHANGED edits

\* CSVFormatProfileAdmin.deactivate_profiles
DeactivateProfiles ==
    /\ \E selected \in Selections(table) :
          /\ table' = Update(table, selected, FALSE)
          /\ Requested([op |-> "deactivate", selected |-> selected])
          /\ response' = Message("Successfully deactivated ", Cardinality(selected))
    /\ UNCHANGED edits

\* class CSVUpload(models.Model): its fields; uploaded_at is auto_now_add and
\* so not editable
CSVUploadFields ==
    << [name |-> "file", foreign_key |-> FALSE, editable |-> TRUE],
       [name |-> "record_type", foreign_key |-> FALSE, editable |-> TRUE],
       [name |-> "uploaded_at", foreign_key |-> FALSE, editable |-> FALSE],
       [name |-> "rows_imported", foreign_key |-> FALSE, editable |-> TRUE],
       [name |-> "errors", foreign_key |-> FALSE, editable |-> TRUE] >>
\* CSVUploadAdmin.readonly_fields
UploadReadonlyFields == {"uploaded_at", "rows_imported", "errors"}
\* the fields of CSVUploadForm (fields = "__all__") in the admin form
UploadFormFields ==
    SelectSeq(CSVUploadFields, LAMBDA f : f.editable /\ f.name \notin UploadReadonlyFields)

\* CSVFormatProfile.objects.filter(is_active=True)
ActiveProfiles(rows) == {pk \in 1..Len(rows) : rows[pk].is_active}
\* CSVUploadAdmin.formfield_for_foreignkey: the queryset of the form field
formfield_for_foreignkey(db_field, rows) ==
    IF db_field.name = "format_profile" THEN ActiveProfiles(rows) ELSE 1..Len(rows)
\* the profiles the form offers: the choices of its format_profile field
OfferedProfiles(rows) ==
    UNION {formfield_for_foreignkey(UploadFormFields[i], rows) :
              i \in {j \in 1..Len(UploadFormFields) :
                        /\ UploadFormFields[j].foreign_key
                        /\ UploadFormFields[j].name = "format_profile"}}
\* CSVUploadAdmin._get_profile_record_type_map
_get_profile_record_type_map(rows) == [pk \in ActiveProfiles(rows) |-> rows[pk].record_type]

\* GET of the add form of CSVUpload: CSVUploadAdmin.changeform_view
OpenUploadForm ==
    /\ response' = [status |-> 200,
                    fields |-> {UploadFormFields[i].name : i \in 1..Len(UploadFormFields)},
                    choices |-> OfferedProfiles(table),
                    profile_record_type_map |-> _get_profile_record_type_map(table)]
    /\ Requested([op |-> "add_upload"])
    /\ UNCHANGED <<table, edits>>

InitAdmin == Built(NoProfile)

\* profiles created, duplicated, activated and deactivated, and the upload
\* form opened
NextAdmin ==
    \/ CreateProfile
    \/ DuplicateProfile
    \/ SaveCopy
    \/ AnswerDuplicate
    \/ ActivateProfiles
    \/ DeactivateProfiles
    \/ OpenUploadForm

SpecAdmin == InitAdmin /\ [][NextAdmin]_vars

\* profiles created, duplicated and changed
NextCopies == CreateProfile \/ DuplicateProfile \/ SaveCopy \/ AnswerDuplicate \/ ChangeProfile

SpecCopies == InitAdmin /\ [][NextCopies]_vars

(***************************************************************************)
(* CSVFormatProfileAdmin.test_csv_view: the preview of a sample file       *)
(***************************************************************************)
PreviewLimit == 10
ErrorLimit == 20

\* str(n) for an int n >= 0, as characters
RECURSIVE Digits(_)
Digits(n) ==
    IF n < 10 THEN <<AsciiDigits[n + 1]>> ELSE Digits(n \div 10) \o <<AsciiDigits[(n % 10) + 1]>>
Zeros(n) == [i \in 1..n |-> "0"]

\* str(datetime.date(y, m, d)): %04d-%02d-%02d
DateStr(date) ==
    Str(Zeros(4 - Len(Digits(date[1]))) \o Digits(date[1]) \o <<"-">>
        \o Zeros(2 - Len(Digits(date[2]))) \o Digits(date[2]) \o <<"-">>
        \o Zeros(2 - Len(Digits(date[3]))) \o Digits(date[3]))

\* str(int(raw_value))
IntStr(n) == IF n < 0 THEN "-" \o ToString(0 - n) ELSE ToString(n)

\* str() of a finite Decimal with the digits ds and the exponent exp: plain
\* notation when exp <= 0 and the number has more than -6 digits left of the
\* point, else scientific notation with one digit before the point
FiniteStr(ds, exp, dotplace) ==
    Str(IF dotplace <= 0 THEN <<"0", ".">> \o Zeros(0 - dotplace) \o ds
        ELSE IF dotplace >= Len(ds) THEN ds \o Zeros(dotplace - Len(ds))
        ELSE SubSeq(ds, 1, dotplace) \o <<".">> \o SubSeq(ds, dotplace + 1, Len(ds)))
    \o (IF exp + Len(ds) = dotplace THEN ""
        ELSE IF exp + Len(ds) > dotplace THEN "E+" \o ToString(exp + Len(ds) - dotplace)
        ELSE "E-" \o ToString(dotplace - exp - Len(ds)))

\* the digits after NaN, without leading zeros
Payload(body) ==
    LET ds == SelectSeq(body, IsAsciiDigit)
        nz == {i \in 1..Len(ds) : ds[i] # "0"}
    IN  IF nz = {} THEN <<>> ELSE SubSeq(ds, CHOOSE i \in nz : \A j \in nz : i <= j, Len(ds))

\* str(Decimal(raw_value)) for a raw_value that Decimal() accepts
DecimalStr(raw_value, d) ==
    (IF d.sign = 1 THEN "-" ELSE "")
    \o (IF d.kind = "Infinity" THEN "Infinity"
        ELSE IF d.kind = "NaN"
        THEN (IF "s" \in Range(PyLower(raw_value)) THEN "sNaN" ELSE "NaN")
                 \o Str(Payload(raw_value))
        ELSE FiniteStr(Digits(d.coef), d.exp,
                       IF d.exp <= 0 /\ d.exp + Len(Digits(d.coef)) > -6
                       THEN d.exp + Len(Digits(d.coef)) ELSE 1))

\* record[field_name] = value, with or without an entry of row_errors
Shown(st, field_name, ok, value, raw_value, message) ==
    IF ok THEN SetParsed(st, field_name, value)
    ELSE SetParsed(AddError(st, message), field_name, Str(raw_value))

\* the date branch: except ValueError, so that an re.error escapes
ShownDate(st, field_name, r, raw_value, date_format) ==
    IF r.error = "error" THEN [st EXCEPT !.raised = "error"]
    ELSE Shown(st, field_name, r.ok, DateStr(r.date), raw_value,
               "Invalid date '" \o Str(raw_value) \o "' for format '"
                   \o Str(date_format) \o "'")

\* the branches of the loop over mappings.items() for one cell
PreviewField(st, field_name, raw_value, date_format) ==
    IF field_name = "date" /\ raw_value # <<>>
    THEN ShownDate(st, field_name, Strptime(raw_value, date_format), raw_value, date_format)
    ELSE IF field_name = "quantity" /\ raw_value # <<>>
    THEN Shown(st, field_name, PyInt(raw_value).ok, IntStr(PyInt(raw_value).val), raw_value,
               "Invalid integer '" \o Str(raw_value) \o "' for " \o field_name)
    ELSE IF field_name \in {"unit_price", "total_price", "shipping_cost"} /\ raw_value # <<>>
    THEN Shown(st, field_name, Decimal(raw_value).ok,
               DecimalStr(raw_value, Decimal(raw_value)), raw_value,
               "Invalid decimal '" \o Str(raw_value) \o "' for " \o field_name)
    ELSE SetParsed(st, field_name, Str(raw_value))

\* for col_index_str, field_name in mappings.items(): from the k-th item on
RECURSIVE PreviewFields(_, _, _, _, _)
PreviewStep(row, mappings, date_format, k, st, idx) ==
    IF ~idx.ok THEN [st EXCEPT !.raised = "ValueError"]
    ELSE IF idx.val >= Len(row)
    THEN PreviewFields(row, mappings, date_format, k + 1,
             AddError(st, "Column " \o ToString(idx.val) \o " out of range"))
    ELSE IF idx.val < 0 - Len(row)
    THEN [st EXCEPT !.raised = "IndexError"]
    ELSE PreviewFields(row, mappings, date_format, k + 1,
             PreviewField(st, mappings[k].field,
                          PyStrip(IF idx.val >= 0 THEN row[idx.val + 1]
                                  ELSE row[Len(row) + idx.val + 1]),
                          date_format))
PreviewFields(row, mappings, date_format, k, st) ==
    IF k > Len(mappings) \/ st.raised # "none" THEN st
    ELSE PreviewStep(row, mappings, date_format, k, st, PyInt(mappings[k].key))

\* if row_errors: errors.append(...); parsed_records.append(record)
Previewed(out, row_num, st) ==
    IF st.raised # "none" THEN Raised(st.raised)
    ELSE [out EXCEPT !.records = Append(@, st.parsed),
                     !.errors = IF st.row_errors # <<>>
                                THEN Append(@, RowError(row_num, st.row_errors)) ELSE @]

\* for row_num, row in enumerate(data_rows, start=2): from the n-th data row on
RECURSIVE PreviewRows(_, _, _, _)
PreviewRows(data_rows, profile, n, out) ==
    IF n > Len(data_rows) \/ out.raised # "none" THEN out
    ELSE PreviewRows(data_rows, profile, n + 1,
             Previewed(out, n + 1,
                 PreviewFields(data_rows[n], profile.field_mappings, profile.date_format, 1,
                               RowState(EmptyDict, <<>>, "none"))))

\* sorted(mappings.keys(), key=lambda x: int(x)): the positions of the items
SortedItems(mappings) ==
    SortSeq([k \in 1..Len(mappings) |-> k],
            LAMBDA a, b : \/ PyInt(mappings[a].key).val < PyInt(mappings[b].key).val
                          \/ /\ PyInt(mappings[a].key).val = PyInt(mappings[b].key).val
                             /\ a < b)

\* f"{field_name} (CSV: {csv_header})"
MappedHeader(item, csv_headers) ==
    item.field \o " (CSV: "
        \o (IF PyInt(item.key).val >= Len(csv_headers) THEN "Column " \o ToString(PyInt(item.key).val)
            ELSE IF PyInt(item.key).val >= 0 THEN Str(csv_headers[PyInt(item.key).val + 1])
            ELSE Str(csv_headers[Len(csv_headers) + PyInt(item.key).val + 1]))
        \o ")"

\* (variant: nothing is cut)
FirstOf_all(seq, limit) == seq
\* seq[:limit]
FirstOf(seq, limit) == SubSeq(seq, 1, IF Len(seq) < limit THEN Len(seq) ELSE limit)

\* {h: record.get(h, "") for h in header_fields}
PreviewOf(record, header_fields) ==
    [h \in header_fields |-> IF h \in DOMAIN record THEN record[h] ELSE ""]

\* test_csv_view from the loop over the data rows on
PreviewResponse(mappings, csv_headers, out) ==
    IF out.raised # "none" THEN [status |-> 500, raised |-> out.raised]
    ELSE IF \E k \in 1..Len(mappings) :
                \/ ~PyInt(mappings[k].key).ok
                \/ PyInt(mappings[k].key).val < 0 - Len(csv_headers)
    THEN [status |-> 500,
          raised |-> IF \E k \in 1..Len(mappings) : ~PyInt(mappings[k].key).ok
                     THEN "ValueError" ELSE "IndexError"]
    ELSE [status |-> 200,
          headers |-> [i \in 1..Len(mappings) |->
                          MappedHeader(mappings[SortedItems(mappings)[i]], csv_headers)],
          preview |-> [i \in 1..Len(FirstOf(out.records, PreviewLimit)) |->
                          PreviewOf(out.records[i], MappedFields(mappings))],
          total_parsed |-> Len(out.records),
          errors |-> FirstOf(out.errors, ErrorLimit)]

JsonError(status, error) == [status |-> status, error |-> error]

\* test_csv_view from rows = list(reader) on: what the reader raises escapes
PreviewRead(profile, reader) ==
    IF reader.raised # "none" THEN [status |-> 500, raised |-> reader.raised]
    ELSE IF reader.rows = <<>> THEN JsonError(200, "CSV file is empty.")
    ELSE PreviewResponse(profile.field_mappings, reader.rows[1],
             PreviewRows(Tail(reader.rows), profile, 1, Returned(<<>>, <<>>)))

\* test_csv_view from file_content = csv_file.read().decode("utf-8-sig") on
PreviewDecoded(profile, decoded) ==
    IF decoded.raised # "none"
    THEN JsonError(200, "File encoding error. Please upload a UTF-8 encoded CSV.")
    ELSE IF Len(Delimiter(profile)) # 1 THEN [status |-> 500, raised |-> "TypeError"]
    ELSE PreviewRead(profile, csv_reader(decoded.text, Delimiter(profile)[1]))

\* CSVFormatProfileAdmin.test_csv_view; csv_file.isNone: no file in the
\* request, csv_file.content: the bytes of the file
test_csv_view(rows, method, csv_file, profile_id) ==
    IF profile_id \notin 1..Len(rows) THEN JsonError(404, "Profile not found.")
    ELSE IF method # "POST" THEN JsonError(405, "Only POST requests are allowed.")
    ELSE IF csv_file.isNone THEN JsonError(400, "No file uploaded.")
    ELSE PreviewDecoded(rows[profile_id], decode(csv_file.content))

MaxSampleRows == 22

\* the profiles of the admin tests: the fields without a default, and one
\* with another delimiter and date notation, its keys out of order
SampleProfiles ==
    << StoredProfile(<<"A">>, "sales", <<",">>, DATE_FORMATS[1],
                     Mapping(<< <<"0">>, <<"1">>, <<"2">>, <<"3">>, <<"4">>, <<"5">> >>,
                             <<"date", "item_name", "quantity", "unit_price", "total_price",
                               "post_code">>), TRUE),
       StoredProfile(<<"B">>, "purchase", <<";">>, DATE_FORMATS[2],
                     Mapping(<< <<"5">>, <<"1">>, <<"0">>, <<"3">>, <<"4">>, <<"2">>, <<"1", "0">> >>,
                             <<"post_code", "item_name", "date", "unit_price", "total_price",
                               "quantity", "shipping_cost">>), FALSE) >>

\* the n-th data row of a sample: its item name tells the rows apart
SampleRow(kind, n) ==
    IF kind = "blank" THEN <<>>
    ELSE << IF kind = "valid" \/ (kind = "mixed" /\ n % 3 # 0) \/ (kind = "tail" /\ n > 20)
            THEN Cells.date_iso
            ELSE IF kind = "dmy" THEN Cells.date_dmy ELSE <<"x">>,
            <<" ", "I">> \o Digits(n), IF n % 2 = 0 THEN <<"0", "7">> ELSE Cells.qty_neg,
            IF kind = "mixed" /\ n % 5 = 0 THEN <<"a", "b", "c">> ELSE <<"1", "E", "2">>,
            Cells.price, Cells.post_code >>
\* "tail": the first 20 rows fail, the rows after them do not
SampleKinds == {"valid", "failing", "mixed", "tail", "dmy", "blank"}
SampleHeader == SubSeq(HeaderFull, 1, 5) \o <<HeaderCells.post_code>>
\* the last ones have their lines ended by "\r\n"
SampleFiles ==
    {<<>>} \cup
    {FileText(<<SampleHeader>> \o [n \in 1..rows |-> SampleRow(kind, n)], d) :
        rows \in 0..MaxSampleRows, kind \in SampleKinds, d \in {",", ";"}} \cup
    {CrLf(FileText(<<SampleHeader>> \o [n \in 1..3 |-> SampleRow("mixed", n)], d)) :
        d \in {",", ";"}}

\* a sample whose bytes are not UTF-8: its e acute is the single byte of
\* Latin-1
Latin1Sample ==
    encode(FileText(<<SampleHeader>>, ",")) \o encode(<<"2", "0", "2", "4", "-", "0", "1", "-", "1", "5", ",", "C", "a", "f">>)
        \o <<233>> \o encode(<<",", "7", ",", "1", "E", "2", ",", "9", ".", "9", "9", ",", "S", "W", "1", "\n">>)
\* the same sample in UTF-8, after a byte order mark
Utf8Sample ==
    BOM_UTF8 \o SubSeq(Latin1Sample, 1, Len(Latin1Sample) - 17) \o <<195, 169>>
        \o SubSeq(Latin1Sample, Len(Latin1Sample) - 15, Len(Latin1Sample))
\* the files posted: the sample files as bytes, and the two above
SampleUploads == {encode(text) : text \in SampleFiles} \cup {Latin1Sample, Utf8Sample}

NoFile == [isNone |-> TRUE, content |-> <<>>]
\* an uploaded file with the bytes content
Uploaded(content) == [isNone |-> FALSE, content |-> content]

\* the sample profiles are stored; no request has been made
InitPreview ==
    /\ built = NoProfile
    /\ parsers = [i \in ParserIds |-> [profile |-> built]]
    /\ file_content = <<>>
    /\ outcome = NotCalled
    /\ stored = NoRows
    /\ calls = 0
    /\ candidate = NoCandidate
    /\ verdict = NoVerdict
    /\ edits = 0
    /\ table = SampleProfiles
    /\ request = NoRequest
    /\ response = NoResponse
    /\ pending = NoPending

\* one request to <profile_id>/test-csv/
TestCsv ==
    /\ request = NoRequest
    /\ \E profile_id \in 1..(Len(table) + 1), method \in {"GET", "POST"},
          csv_file \in {NoFile} \cup {Uploaded(content) : content \in SampleUploads} :
          /\ response' = test_csv_view(table, method, csv_file, profile_id)
          /\ Requested([op |-> "test_csv", profile_id |-> profile_id, method |-> method,
                        csv_file |-> csv_file])
    /\ UNCHANGED <<table, edits>>

NextPreview == TestCsv

SpecPreview == InitPreview /\ [][NextPreview]_vars

(***************************************************************************)
(* CSVFormatProfile: the record types' fields and clean()                  *)
(***************************************************************************)
\* model_class._meta.get_fields() of SalesRecord and PurchaseRecord: both take
\* their fields from BaseRecord, after the automatic id.  has_default is
\* "f.default is not NOT_PROVIDED"; every one of them has a column.
BaseRecordFields ==
    << [name |-> "id", blank |-> TRUE, has_default |-> FALSE],
       [name |-> "date", blank |-> FALSE, has_default |-> FALSE],
       [name |-> "item_name", blank |-> FALSE, has_default |-> FALSE],
       [name |-> "quantity", blank |-> FALSE, has_default |-> FALSE],
       [name |-> "unit_price", blank |-> FALSE, has_default |-> FALSE],
       [name |-> "total_price", blank |-> FALSE, has_default |-> FALSE],
       [name |-> "shipping_cost", blank |-> FALSE, has_default |-> TRUE],
       [name |-> "post_code", blank |-> FALSE, has_default |-> FALSE],
       [name |-> "currency", blank |-> TRUE, has_default |-> TRUE],
       [name |-> "created_at", blank |-> TRUE, has_default |-> FALSE] >>
get_fields(record_type) == IF record_type = "sales" THEN BaseRecordFields ELSE BaseRecordFields

excluded == {"id", "created_at"}

_get_model_fields(self) ==
    LET fs == get_fields(self.record_type)
    IN  {fs[i].name : i \in {j \in 1..Len(fs) : fs[j].name \notin excluded}}

\* the fields with: not getattr(f, "blank", False) and not has_default
_get_required_fields(self) ==
    LET fs == get_fields(self.record_type)
        required(f) == f.name \notin excluded /\ ~f.blank /\ ~f.has_default
    IN  {fs[i].name : i \in {j \in 1..Len(fs) : required(fs[j])}}

\* str.isdigit(): non-empty and every character a digit; besides 0-9 the
\* superscripts one, two and three, which are digits to isdigit() but not to
\* int()
PyIsDigit(s) ==
    s # <<>> /\ \A i \in 1..Len(s) : IsAsciiDigit(s[i]) \/ s[i] \in {"¹", "²", "³"}

Valid == [state |-> "valid", key |-> "", reported |-> {}, message |-> ""]
\* raise ValidationError({"field_mappings": message}); reported names the
\* invariant the message is about
ValidationError(invariant, message) ==
    [state |-> "ValidationError", key |-> "field_mappings", reported |-> {invariant},
     message |-> message]

\* the first key, in the mapping's order, that is not isdigit(): 0 if none
FirstBadDigitKey(items) ==
    LET bad == {k \in 1..Len(items) : ~PyIsDigit(items[k].key)}
    IN  IF bad = {} THEN 0 ELSE CHOOSE k \in bad : \A j \in bad : k <= j

\* CSVFormatProfile.clean
clean(self) ==
    LET items == self.items
        badKey == FirstBadDigitKey(items)
        valid_fields == _get_model_fields(self)
        mapping_values == {items[k].field : k \in 1..Len(items)}
        invalid_fields == mapping_values \ valid_fields
        missing_fields == _get_required_fields(self) \ mapping_values
    IN  IF self.kind # "dict" \/ items = <<>>
        THEN ValidationError("non_empty", "field_mappings must be a non-empty dictionary.")
        ELSE IF badKey # 0
        THEN ValidationError("keys",
                 "Key '" \o Str(items[badKey].key) \o "' is not a valid column index. "
                     \o "Keys must be non-negative integer strings (e.g. '0', '1', '2').")
        ELSE IF invalid_fields # {}
        THEN ValidationError("fields",
                 "Invalid field name(s): " \o JoinStr(Sorted(invalid_fields), ", ")
                     \o ". Valid fields are: " \o JoinStr(Sorted(valid_fields), ", ") \o ".")
        ELSE IF missing_fields # {}
        THEN ValidationError("required",
                 "Missing required field(s): " \o JoinStr(Sorted(missing_fields), ", ")
                     \o ". All required fields must be present in field_mappings values.")
        ELSE Valid

(***************************************************************************)
(* Editing and validating a profile                                        *)
(***************************************************************************)
\* the mapping of the model tests
TestMapping ==
    Mapping(<< <<"0">>, <<"1">>, <<"2">>, <<"3">>, <<"4">>, <<"5">> >>,
            <<"date", "item_name", "quantity", "unit_price", "total_price", "post_code">>)
EditKeys == { <<"6">>, <<"x">>, <<"-", "1">>, <<"²">> }
EditFields == {"shipping_cost", "currency", "id", "created_at", "bogus", "Date", ""}

InitClean ==
    /\ built = NoProfile
    /\ parsers = [i \in ParserIds |-> [profile |-> built]]
    /\ file_content = <<>>
    /\ outcome = NotCalled
    /\ stored = NoRows
    /\ calls = 0
    /\ \E rt \in {"sales", "purchase"} :
          candidate = [record_type |-> rt, kind |-> "dict", items |-> TestMapping]
    /\ verdict = NoVerdict
    /\ edits = 0
    /\ EmptySite

\* field_mappings[key] = field
DictSet(items, key, field) ==
    IF \E k \in 1..Len(items) : items[k].key = key
    THEN [k \in 1..Len(items) |->
             IF items[k].key = key THEN [key |-> key, field |-> field] ELSE items[k]]
    ELSE Append(items, [key |-> key, field |-> field])

\* del field_mappings[key]
DictDel(items, key) == SelectSeq(items, LAMBDA it : it.key # key)

Edited(c) ==
    /\ edits < MaxEdits
    /\ candidate' = c
    /\ verdict' = NoVerdict
    /\ edits' = edits + 1
    /\ UNCHANGED parseVars
    /\ UNCHANGED adminVars

SetMapping ==
    /\ candidate.kind = "dict"
    /\ \E key \in EditKeys, field \in EditFields :
          Edited([candidate EXCEPT !.items = DictSet(@, key, field)])

DelMapping ==
    /\ candidate.kind = "dict"
    /\ \E k \in 1..Len(candidate.items) :
          Edited([candidate EXCEPT !.items = DictDel(@, candidate.items[k].key)])

\* field_mappings set to a list or to None
ReplaceMappings ==
    /\ candidate.kind = "dict"
    /\ \E kind \in {"list", "None"} :
          Edited([candidate EXCEPT !.kind = kind, !.items = <<>>])

\* full_clean() when the profile is saved
Clean ==
    /\ verdict' = clean(candidate)
    /\ UNCHANGED <<candidate, edits>>
    /\ UNCHANGED parseVars
    /\ UNCHANGED adminVars

NextClean == SetMapping \/ DelMapping \/ ReplaceMappings \/ Clean

SpecClean == InitClean /\ [][NextClean]_vars

(***************************************************************************)
(* Properties of clean()                                                   *)
(***************************************************************************)
Validated == verdict.state # "unvalidated"

\* the four invariants of a profile, as the specification states them
MappingNonEmpty == candidate.kind = "dict" /\ candidate.items # <<>>
KeysAreIndexes ==
    \A k \in 1..Len(candidate.items) :
        /\ candidate.items[k].key # <<>>
        /\ \A i \in 1..Len(candidate.items[k].key) : IsAsciiDigit(candidate.items[k].key[i])
SchemaFields ==
    {"date", "item_name", "quantity", "unit_price", "total_price", "shipping_cost",
     "post_code", "currency"}
\* no default and not blank-allowed
SchemaRequired == {"date", "item_name", "quantity", "unit_price", "total_price", "post_code"}
CandidateValues == {candidate.items[k].field : k \in 1..Len(candidate.items)}
ValuesAreFields == CandidateValues \subseteq SchemaFields
RequiredAreMapped == SchemaRequired \subseteq CandidateValues

\* C8: clean() accepts a profile if and only if the four invariants hold, and
\* otherwise raises a ValidationError keyed by field_mappings.
C8_CleanAcceptsIffInvariants ==
    Validated =>
        /\ verdict.state = "valid" <=>
              (MappingNonEmpty /\ KeysAreIndexes /\ ValuesAreFields /\ RequiredAreMapped)
        /\ verdict.state # "valid" =>
              (verdict.state = "ValidationError" /\ verdict.key = "field_mappings")

\* the invariants a non-empty mapping violates
Violated ==
    IF ~MappingNonEmpty THEN {"non_empty"}
    ELSE (IF KeysAreIndexes THEN {} ELSE {"keys"})
         \cup (IF ValuesAreFields THEN {} ELSE {"fields"})
         \cup (IF RequiredAreMapped THEN {} ELSE {"required"})

\* C9: the ValidationError of clean() reports every violated invariant
\* together, not only the first one checked.
C9_ReportsEveryViolation ==
    verdict.state = "ValidationError" => verdict.reported = Violated

(***************************************************************************)
(* Properties of parse()                                                   *)
(***************************************************************************)
Called == calls > 0
LegacyMode == built.isNone
ProfileMode == ~built.isNone

\* the rows of the latest file as the mode's reader splits it: the first is
\* the header row, the others are the data rows; when the reader raises, the
\* rows it has split before
SourceDelimiter ==
    IF LegacyMode THEN ","
    ELSE IF built.delimiter = <<"\\", "t">> THEN "\t" ELSE built.delimiter[1]
SourceRows == csv_reader(file_content, SourceDelimiter).rows
\* the fields the parser requires, as the specification lists them
SpecRequiredFields ==
    {"date", "item_name", "quantity", "unit_price", "total_price", "shipping_cost", "post_code"}

\* the structural faults of a file with the rows src
HeaderNames(src) == {Str(PyLower(PyStrip(src[1][i]))) : i \in 1..Len(src[1])}
MissingHeaders(src) == SpecRequiredFields \ HeaderNames(src)
UnmappedFields ==
    SpecRequiredFields \ {built.field_mappings[k].field : k \in 1..Len(built.field_mappings)}
OffendingKeys(src) ==
    {k \in 1..Len(built.field_mappings) :
        PyInt(built.field_mappings[k].key).val >= Len(src[1])}
StructuralFault(src) ==
    \/ src = <<>>
    \/ LegacyMode /\ MissingHeaders(src) # {}
    \/ ProfileMode /\ (UnmappedFields # {} \/ OffendingKeys(src) # {})

RowErrorsOf(out) == SelectSeq(out.errors, LAMBDA e : e.kind = "row")

\* what parse() makes of the n-th data row of src when it is the only data row
Alone(src, n) == parse(parsers[1], FileText(<<src[1], src[n + 1]>>, SourceDelimiter))

\* C1: when parse() meets no structural fault, every data row lands in exactly
\* one bucket: it returns, and the number of records plus the number of
\* "Row <n>:" errors is the number of data rows, no row number being reported twice.
C1_EveryRowInOneBucket ==
    LET src == SourceRows
    IN  (Called /\ ~StructuralFault(src)) =>
            /\ outcome.raised = "none"
            /\ Len(outcome.records) + Len(RowErrorsOf(outcome)) = Len(src) - 1
            /\ \A i, j \in 1..Len(outcome.errors) :
                  outcome.errors[i].row = outcome.errors[j].row => i = j

\* C2: rows are independent: parse() attempts every data row, and its records
\* and row errors are those each row gives when it is the only data row of the
\* file, in row order, whatever the other rows hold.
C2_RowsIndependent ==
    LET src == SourceRows
        alone == [n \in 1..(Len(src) - 1) |-> Alone(src, n)]
    IN  (Called /\ ~StructuralFault(src)) =>
            /\ outcome.raised = "none"
            /\ outcome.records = Concat([n \in 1..Len(alone) |-> alone[n].records])
            /\ [i \in 1..Len(outcome.errors) |-> outcome.errors[i].msgs] =
                  Concat([n \in 1..Len(alone) |->
                             [i \in 1..Len(alone[n].errors) |-> alone[n].errors[i].msgs]])

\* C3: a structural fault (empty file, missing required header, missing
\* required mapping, mapped index outside the header) gives zero records and
\* exactly one error, which is no "Row <n>:" error; the error for a missing
\* mapping is "Missing required field mappings: " and the missing fields.
C3_StructuralErrorAborts ==
    Called =>
        LET src == SourceRows
        IN  StructuralFault(src) =>
                /\ outcome.raised = "none"
                /\ outcome.records = <<>>
                /\ Len(outcome.errors) = 1
                /\ outcome.errors[1].kind # "row"
                /\ outcome.errors[1].row = 0
                /\ (ProfileMode /\ src # <<>> /\ UnmappedFields # {}) =>
                      outcome.errors[1].text =
                          "Missing required field mappings: "
                              \o JoinStr(Sorted(UnmappedFields), ", ")

\* C4: with a structurally complete header or mapping, malformed data rows
\* never make parse() raise.
C4_NeverRaises ==
    (Called /\ ~StructuralFault(SourceRows)) => outcome.raised = "none"

\* C6: every row error carries the 1-based position of its source row, the
\* header being row 1: the errors are, in order, "Row <k+1>:" for exactly the
\* data rows k that fail.
C6_RowNumbers ==
    LET src == SourceRows
        alone == [n \in 1..(Len(src) - 1) |-> Alone(src, n)]
        fails(k) == alone[k - 1].raised # "none" \/ alone[k - 1].errors # <<>>
    IN  (Called /\ ~StructuralFault(src)) =>
            /\ outcome.raised = "none"
            /\ [i \in 1..Len(outcome.errors) |-> outcome.errors[i].row] =
                  SelectSeq([k \in 1..(Len(src) - 1) |-> k + 1], fails)

\* C7: in profile mode, with a non-empty file and every required field
\* mapped, a mapped index at or beyond the header's width gives zero records
\* and the single error "Column index <i> is out of range (CSV has <w>
\* columns)." for such an index i and the header's width w.
C7_IndexOutOfRangeAborts ==
    (Called /\ ProfileMode /\ UnmappedFields = {}) =>
        LET src == SourceRows
        IN  (src # <<>> /\ OffendingKeys(src) # {}) =>
                /\ outcome.raised = "none"
                /\ outcome.records = <<>>
                /\ Len(outcome.errors) = 1
                /\ \E k \in OffendingKeys(src) :
                      outcome.errors[1].text =
                          "Column index " \o ToString(PyInt(built.field_mappings[k].key).val)
                              \o " is out of range (CSV has " \o ToString(Len(src[1]))
                              \o " columns)."

NonNegativeDecimal(d) == d.kind = "finite" /\ (d.sign = 0 \/ d.coef = 0)

\* C10: every record returned has unit_price, total_price and shipping_cost
\* that are finite decimals >= 0.
C10_PricesNonNegative ==
    Called =>
        \A i \in 1..Len(outcome.records) :
            \A f \in {"unit_price", "total_price", "shipping_cost"} :
                f \in DOMAIN outcome.records[i] => NonNegativeDecimal(outcome.records[i][f])

(***************************************************************************)
(* Properties of the fields of a row                                       *)
(***************************************************************************)
\* the columns (counted from 1) that hold the field f: in legacy mode those
\* whose header is f once trimmed and lower-cased, in profile mode those the
\* profile maps to f
FieldColumns(src, f) ==
    IF LegacyMode THEN {i \in 1..Len(src[1]) : Str(PyLower(PyStrip(src[1][i]))) = f}
    ELSE {PyInt(built.field_mappings[k].key).val + 1 :
              k \in {j \in 1..Len(built.field_mappings) : built.field_mappings[j].field = f}}
\* the cells of the k-th data row that hold the field f
FieldCells(src, k, f) ==
    {src[k + 1][i] : i \in FieldColumns(src, f) \cap (1..Len(src[k + 1]))}

\* the "Row <n>:" errors of out that carry the field message msg
RejectedWith(out, msg) ==
    {n \in 1..Len(out.errors) :
        out.errors[n].kind = "row" /\ msg \in Range(out.errors[n].msgs)}

\* an integer in decimal notation: an optional sign, then digits only
IsIntegerText(t) ==
    LET body == IF t # <<>> /\ t[1] \in {"+", "-"} THEN Tail(t) ELSE t
    IN  body # <<>> /\ \A i \in 1..Len(body) : body[i] \in DigitSet
IsNegativeInteger(t) ==
    IsIntegerText(t) /\ t[1] = "-" /\ \E i \in 2..Len(t) : t[i] # "0"

\* C11: every record returned has an integer quantity >= 0; a data row whose
\* quantity cell is a negative integer is rejected with "quantity must be
\* non-negative", one whose quantity cell is blank or not an integer is
\* rejected with "invalid quantity", and neither gives a record.
C11_QuantityNonNegative ==
    LET src == SourceRows
        rows == 1..(Len(src) - 1)
        negative == {k \in rows : \E c \in FieldCells(src, k, "quantity") :
                                      IsNegativeInteger(PyStrip(c))}
        nonNumeric == {k \in rows : \E c \in FieldCells(src, k, "quantity") :
                                        ~IsIntegerText(PyStrip(c))}
    IN  (Called /\ ~StructuralFault(src)) =>
            /\ \A i \in 1..Len(outcome.records) :
                  /\ "quantity" \in DOMAIN outcome.records[i]
                  /\ outcome.records[i].quantity \in Nat
            /\ \A k \in negative :
                  /\ Alone(src, k).records = <<>>
                  /\ RejectedWith(Alone(src, k), "quantity must be non-negative") # {}
            /\ \A k \in nonNumeric :
                  /\ Alone(src, k).records = <<>>
                  /\ RejectedWith(Alone(src, k), "invalid quantity") # {}
            /\ Cardinality(RejectedWith(outcome, "quantity must be non-negative"))
                  = Cardinality(negative)
            /\ Cardinality(RejectedWith(outcome, "invalid quantity")) = Cardinality(nonNumeric)

\* a decimal number in plain notation: an optional sign, digits, at most one
\* decimal point, at least one digit
IsDecimalText(t) ==
    LET body == IF t # <<>> /\ t[1] \in {"+", "-"} THEN Tail(t) ELSE t
    IN  /\ \A i \in 1..Len(body) : body[i] \in DigitSet \cup {"."}
        /\ Cardinality({i \in 1..Len(body) : body[i] = "."}) <= 1
        /\ \E i \in 1..Len(body) : body[i] \in DigitSet
IsZeroDecimal(d) == d.kind = "finite" /\ d.coef = 0

\* the k-th data row of src with "0" in the cells that hold the field f
WithZero(src, k, f) ==
    [i \in 1..Len(src[k + 1]) |-> IF i \in FieldColumns(src, f) THEN <<"0">> ELSE src[k + 1][i]]

\* C12: shipping_cost is optional and defaults to zero.  A profile that maps
\* every other required field, inside the header, is no structural fault when
\* it leaves shipping_cost unmapped: every row is processed and the records
\* have shipping_cost 0.  A row with a blank shipping_cost cell gives what the
\* same row gives with 0 in that cell.  "invalid shipping_cost" is reported
\* for exactly the rows whose shipping_cost cell is non-blank and no number.
C12_ShippingDefaultsToZero ==
    LET src == SourceRows
        rows == 1..(Len(src) - 1)
        cells(k) == FieldCells(src, k, "shipping_cost")
        blank(k) == cells(k) # {} /\ \A c \in cells(k) : PyStrip(c) = <<>>
        garbled(k) == \E c \in cells(k) : PyStrip(c) # <<>> /\ ~IsDecimalText(PyStrip(c))
        zeroed(k) ==
            parse(parsers[1],
                  FileText(<<src[1], WithZero(src, k, "shipping_cost")>>, SourceDelimiter))
    IN  (/\ Called /\ src # <<>>
         /\ LegacyMode => MissingHeaders(src) = {}
         /\ ProfileMode => (UnmappedFields \subseteq {"shipping_cost"} /\ OffendingKeys(src) = {}))
        =>  /\ (ProfileMode /\ UnmappedFields = {"shipping_cost"}) =>
                  /\ outcome.raised = "none"
                  /\ Len(outcome.records) + Len(RowErrorsOf(outcome)) = Len(src) - 1
                  /\ Len(RowErrorsOf(outcome)) = Len(outcome.errors)
                  /\ \A i \in 1..Len(outcome.records) :
                        /\ "shipping_cost" \in DOMAIN outcome.records[i]
                        /\ IsZeroDecimal(outcome.records[i].shipping_cost)
            /\ \A k \in rows :
                  /\ blank(k) => Alone(src, k) = zeroed(k)
                  /\ garbled(k) <=> RejectedWith(Alone(src, k), "invalid shipping_cost") # {}

\* the k-th data row of src with the cell in the cells that hold the field f
WithCell(src, k, f, cell) ==
    [i \in 1..Len(src[k + 1]) |-> IF i \in FieldColumns(src, f) THEN cell ELSE src[k + 1][i]]

\* C13: every record returned carries a non-blank currency: the trimmed cell
\* when the row has a non-blank currency cell, "GBP" when currency is not
\* mapped, has no header, or the cell is blank.  No field message is about the
\* currency, and a row with a blank currency cell is judged as the same row
\* with "GBP" in that cell.
C13_CurrencyNeverBlank ==
    LET src == SourceRows
        rows == 1..(Len(src) - 1)
        cells(k) == FieldCells(src, k, "currency")
        blank(k) == \A c \in cells(k) : PyStrip(c) = <<>>
        expected(k) == IF blank(k) THEN <<"G", "B", "P">>
                       ELSE PyStrip(CHOOSE c \in cells(k) : PyStrip(c) # <<>>)
        withGBP(k) ==
            parse(parsers[1],
                  FileText(<<src[1], WithCell(src, k, "currency", <<"G", "B", "P">>)>>,
                           SourceDelimiter))
    IN  (Called /\ ~StructuralFault(src)) =>
            /\ \A i \in 1..Len(outcome.records) :
                  /\ "currency" \in DOMAIN outcome.records[i]
                  /\ PyStrip(outcome.records[i].currency) # <<>>
            /\ \A n \in 1..Len(outcome.errors) : \A j \in 1..Len(outcome.errors[n].msgs) :
                  outcome.errors[n].msgs[j] \notin {"invalid currency", "currency is required"}
            /\ \A k \in rows :
                  /\ Alone(src, k).records # <<>> =>
                        Alone(src, k).records[1].currency = expected(k)
                  /\ (cells(k) # {} /\ blank(k)) =>
                        /\ Alone(src, k).errors = withGBP(k).errors
                        /\ Alone(src, k).raised = withGBP(k).raised
                        /\ Len(Alone(src, k).records) = Len(withGBP(k).records)

\* a profile that maps currency has parsed a row whose currency cell is
\* blank, and returned its record with "GBP"
C13_Witness ==
    /\ Called /\ ProfileMode
    /\ FieldColumns(SourceRows, "currency") # {}
    /\ Len(SourceRows) = 2
    /\ FieldCells(SourceRows, 1, "currency") \subseteq {<<>>, <<" ">>}
    /\ FieldCells(SourceRows, 1, "currency") # {}
    /\ Len(outcome.records) = 1
    /\ outcome.records[1].currency = <<"G", "B", "P">>

\* The postcode grammar as the specification words it.  A shape is a sequence
\* of character classes: L a letter, D a digit, S a space.  The general shape
\* is one or two letters, one or two digits, an optional letter, an optional
\* space, one digit and two letters.
PostcodeShapes ==
    {[n \in 1..nl |-> "L"] \o [n \in 1..nd |-> "D"] \o [n \in 1..nt |-> "L"]
         \o [n \in 1..ns |-> "S"] \o <<"D", "L", "L">> :
        nl \in 1..2, nd \in 1..2, nt \in 0..1, ns \in 0..1}
HasClass(c, class) ==
    IF class = "L" THEN c \in UpperSet \cup LowerSet
    ELSE IF class = "D" THEN c \in DigitSet
    ELSE c = " "
\* the indexes j such that s[i..j] is a postcode: the special case "GIR 0AA"
\* in any letter case, or one of the shapes
PostcodeEndsAt(s, i) ==
    {j \in i..Len(s) :
        \/ PyLower(SubSeq(s, i, j)) = <<"g", "i", "r", " ", "0", "a", "a">>
        \/ \E shape \in PostcodeShapes :
              /\ Len(shape) = j - i + 1
              /\ \A n \in 1..Len(shape) : HasClass(s[i + n - 1], shape[n])}
\* extract(text): the first substring of the trimmed text that is a postcode,
\* or the trimmed text when there is none
SpecExtract(text) ==
    LET t == PyStrip(text)
        starts == {i \in 1..Len(t) : PostcodeEndsAt(t, i) # {}}
        first == CHOOSE i \in starts : \A j \in starts : i <= j
    IN  IF starts = {} THEN t
        ELSE SubSeq(t, first, CHOOSE j \in PostcodeEndsAt(t, first) :
                                  \A m \in PostcodeEndsAt(t, first) : m <= j)

\* C14: a non-blank post_code cell is never a reason to reject a row, and the
\* record's post_code is the first substring of the cell that is a postcode
\* when there is one, the trimmed cell otherwise, in both modes.
C14_PostcodeExtraction ==
    LET src == SourceRows
    IN  (Called /\ ~StructuralFault(src)) =>
            \A k \in 1..(Len(src) - 1) : \A c \in FieldCells(src, k, "post_code") :
                PyStrip(c) # <<>> =>
                    /\ RejectedWith(Alone(src, k), "post_code is required") = {}
                    /\ Alone(src, k).records # <<>> =>
                          Alone(src, k).records[1].post_code = SpecExtract(c)

(***************************************************************************)
(* Properties of the header row and the delimiter                          *)
(***************************************************************************)
\* the rows src with the header trimmed and lower-cased and every cell trimmed
Normalised(src) ==
    [n \in 1..Len(src) |->
        [i \in 1..Len(src[n]) |->
            IF n = 1 THEN PyLower(PyStrip(src[n][i])) ELSE PyStrip(src[n][i])]]

\* C15: in legacy mode a file whose header holds the seven required names, up
\* to letter case and surrounding whitespace, is parsed as the file with the
\* names as they are required and the cells trimmed, with or without a
\* currency column; a file whose header lacks one of them gives zero records
\* and the single error "Missing required columns: " and the missing names.
C15_HeaderNormalised ==
    LET src == SourceRows
        missing == SelectSeq(<<"date", "item_name", "quantity", "unit_price", "total_price",
                               "shipping_cost", "post_code">>,
                             LAMBDA f : f \in MissingHeaders(src))
    IN  (Called /\ LegacyMode /\ src # <<>>) =>
            /\ missing = <<>> =>
                  /\ outcome = parse(parsers[1], FileText(Normalised(src), ","))
                  /\ \A n \in 1..Len(outcome.errors) : outcome.errors[n].kind = "row"
            /\ missing # <<>> =>
                  /\ outcome.raised = "none"
                  /\ outcome.records = <<>>
                  /\ Len(outcome.errors) = 1
                  /\ outcome.errors[1].text = "Missing required columns: " \o JoinStr(missing, ", ")

\* a file whose header names are padded and in upper case, without a currency
\* column, has been parsed in legacy mode and gave a record
C15_Witness ==
    /\ Called /\ LegacyMode
    /\ Len(SourceRows) >= 2
    /\ SourceRows[1] # Normalised(SourceRows)[1]
    /\ Len(SourceRows[1]) = 7
    /\ MissingHeaders(SourceRows) = {}
    /\ outcome.raised = "none"
    /\ Len(outcome.records) >= 1

\* C16: a profile whose delimiter is the two characters backslash and t
\* splits on the tab character: for a table whose cells hold neither a tab
\* nor a comma, it parses the tab-separated text to what the same profile with
\* the delimiter "," parses the comma-separated text of the table to.
C16_TabDelimiter ==
    LET src == csv_reader(file_content, "\t").rows
        plain(cell) == \A i \in 1..Len(cell) : cell[i] \notin {",", "\t"}
    IN  (/\ Called /\ ProfileMode
         /\ built.delimiter = <<"\\", "t">>
         /\ \A n \in 1..Len(src) : \A i \in 1..Len(src[n]) : plain(src[n][i]))
        =>  outcome = parse([profile |-> [built EXCEPT !.delimiter = <<",">>]],
                            FileText(src, ","))

\* the tab profile has parsed tab-separated rows of seven cells and returned
\* a record and a row error
C16_Witness ==
    /\ Called /\ ProfileMode
    /\ built.delimiter = <<"\\", "t">>
    /\ \E i \in 1..Len(file_content) : file_content[i] = "\t"
    /\ Len(csv_reader(file_content, "\t").rows) >= 2
    /\ Len(csv_reader(file_content, "\t").rows[1]) = 7
    /\ outcome.raised = "none"
    /\ Len(outcome.records) = 1

(***************************************************************************)
(* Properties of the keys of a stored profile                              *)
(***************************************************************************)
\* a non-negative integer in decimal-string form: digits and nothing else
IsColumnIndexText(key) ==
    /\ key # <<>>
    /\ \A i \in 1..Len(key) : key[i] \in {"0", "1", "2", "3", "4", "5", "6", "7", "8", "9"}

\* C17: parse() with a profile whose field_mappings has a key that is not a
\* non-negative integer in decimal-string form returns no records.
C17_BadKeysRejected ==
    (/\ Called /\ ProfileMode
     /\ \E k \in 1..Len(built.field_mappings) : ~IsColumnIndexText(built.field_mappings[k].key))
    => outcome.records = <<>>

(***************************************************************************)
(* Properties of the admin site                                            *)
(***************************************************************************)
\* C18: the profiles the form of a new upload offers are exactly the stored
\* profiles whose is_active is true; activating or deactivating changes
\* is_active of exactly the selected profiles and nothing else of any row, and
\* every profile stays stored.
C18_OnlyActiveOffered ==
    [][/\ request'.op = "add_upload" =>
             response'.choices = {pk \in 1..Len(table') : table'[pk].is_active}
       /\ request'.op \in {"activate", "deactivate"} =>
             /\ Len(table') = Len(table)
             /\ \A pk \in 1..Len(table) :
                   table'[pk] =
                       IF pk \in request'.selected
                       THEN [table[pk] EXCEPT !.is_active = (request'.op = "activate")]
                       ELSE table[pk]
       /\ Len(table') >= Len(table)]_vars

\* C19: duplicating the selected profiles adds exactly one profile per
\* selected profile: the request reads each selected profile once, every save
\* it makes adds one row under a new primary key, with the name of the profile
\* it read followed by " (copy)" and that profile's record_type, delimiter,
\* date_format and field_mappings, and it is answered when it has saved one
\* copy of each; no stored profile changes by it; and a later change of one
\* profile changes no other profile.
C19_DuplicateIsACopy ==
    [][/\ (pending = NoPending /\ pending' # NoPending) =>
             /\ table' = table
             /\ pending'.duplicated = 0
             /\ Len(pending'.instances) = Cardinality(pending'.selected)
             /\ \A pk \in pending'.selected :
                   \E k \in 1..Len(pending'.instances) : pending'.instances[k] = table[pk]
       /\ (pending # NoPending /\ pending' # NoPending /\ pending' # pending) =>
             LET original == pending.instances[pending'.duplicated]
                 copy == table'[Len(table')]
             IN  /\ pending'.duplicated = pending.duplicated + 1
                 /\ pending'.instances = pending.instances
                 /\ Len(table') = Len(table) + 1
                 /\ \A pk \in 1..Len(table) : table'[pk] = table[pk]
                 /\ copy.name = original.name \o <<" ", "(", "c", "o", "p", "y", ")">>
                 /\ copy.record_type = original.record_type
                 /\ copy.delimiter = original.delimiter
                 /\ copy.date_format = original.date_format
                 /\ copy.field_mappings = original.field_mappings
       /\ (pending # NoPending /\ pending' = NoPending) =>
             /\ table' = table
             /\ pending.duplicated = Cardinality(pending.selected)
       /\ (request'.op = "change" /\ pending' = pending) =>
             /\ Len(table') = Len(table)
             /\ \A pk \in 1..Len(table) : pk # request'.pk => table'[pk] = table[pk]]_vars

\* two profiles, one of them changed before, have been duplicated together,
\* and the duplication has been answered
C19_Witness ==
    /\ request.op = "duplicate"
    /\ response.status = 302
    /\ pending = NoPending
    /\ Cardinality(request.selected) = 2
    /\ Len(table) = 4
    /\ edits > 0
    /\ \E pk \in request.selected : table[pk].delimiter = <<"|">>
    /\ \E pk \in 3..4 : table[pk].name = <<"B", " ", "(", "c", "o", "p", "y", ")">>

(***************************************************************************)
(* Properties of the preview                                               *)
(***************************************************************************)
\* a sample file, its bytes UTF-8, has been posted to the test view of a
\* stored profile
PreviewAsked ==
    /\ request.op = "test_csv"
    /\ request.method = "POST"
    /\ request.profile_id \in 1..Len(table)
    /\ ~request.csv_file.isNone
    /\ decode(request.csv_file.content).raised = "none"
\* the character the profile of the request separates cells with
SampleDelimiter ==
    IF table[request.profile_id].delimiter = <<"\\", "t">> THEN "\t"
    ELSE table[request.profile_id].delimiter[1]
\* the rows of the sample file: the header row, then the data rows
SampleRows == csv_reader(decode(request.csv_file.content).text, SampleDelimiter).rows
\* the preview of the sample's header row followed by its n-th data row alone
RowAlone(src, n) ==
    PreviewDecoded(table[request.profile_id],
                   [raised |-> "none", text |-> FileText(<<src[1], src[n + 1]>>, SampleDelimiter)])
\* the data rows of the sample that give an error string, in source order
FailingRows(src) ==
    SelectSeq([n \in 1..(Len(src) - 1) |-> n], LAMBDA n : RowAlone(src, n).errors # <<>>)
FirstErrors(src, failing) ==
    /\ Len(response.errors) = (IF Len(failing) < 20 THEN Len(failing) ELSE 20)
    /\ \A j \in 1..Len(response.errors) :
          /\ response.errors[j].row = failing[j] + 1
          /\ response.errors[j].msgs = RowAlone(src, failing[j]).errors[1].msgs

\* C20: the preview of a sample file with at least a header row and N data
\* rows answers with min(N, 10) preview rows, the i-th being the preview of
\* the i-th data row, keyed by the field names of the profile's mapping; with
\* total_parsed = N, the number of records the preview parsed, one for each
\* data row; and with the error strings of the first 20 data rows that have
\* one, in row order.
C20_PreviewIsCut ==
    PreviewAsked =>
        LET src == SampleRows
        IN  src # <<>> =>
                /\ response.status = 200
                /\ Len(response.preview) = (IF Len(src) - 1 < 10 THEN Len(src) - 1 ELSE 10)
                /\ \A i \in 1..Len(response.preview) :
                      /\ DOMAIN response.preview[i] =
                             {table[request.profile_id].field_mappings[k].field :
                                 k \in 1..Len(table[request.profile_id].field_mappings)}
                      /\ response.preview[i] = RowAlone(src, i).preview[1]
                /\ response.total_parsed = Len(src) - 1
                /\ FirstErrors(src, FailingRows(src))

\* a sample of more than 20 data rows, each of them with an error, has been
\* previewed: 10 preview rows and 20 error strings came back
C20_Witness ==
    /\ PreviewAsked
    /\ Len(SampleRows) - 1 > 20
    /\ response.status = 200
    /\ Len(response.preview) = 10
    /\ Len(response.errors) = 20
    /\ response.errors[20].row = 21
    /\ response.total_parsed = Len(SampleRows) - 1

\* the sample files with as many data rows as src has, one of each kind,
\* written with the delimiter of the profile of the request
SameLength(src) ==
    {FileText(<<SampleHeader>> \o [n \in 1..(Len(src) - 1) |-> SampleRow(kind, n)],
              SampleDelimiter) : kind \in SampleKinds}
\* what the preview of a file leaves out: whether it parsed more records than
\* the 10 it shows, and whether it found more errors than the 20 it returns
LeftOut(content) ==
    LET out == PreviewRows(Tail(csv_reader(content, SampleDelimiter).rows),
                           table[request.profile_id], 1, Returned(<<>>, <<>>))
    IN  <<Len(out.records) > 10, Len(out.errors) > 20>>

\* C21: the response of the preview tells the caller whether records or errors
\* were cut: two sample files that get the same response from the same profile
\* had the same things cut, so that "exactly 20 errors" and "more than 20
\* errors" are never answered alike.
C21_TruncationTold ==
    (PreviewAsked /\ SampleRows # <<>> /\ response.status = 200) =>
        \A other \in SameLength(SampleRows) :
            PreviewDecoded(table[request.profile_id], [raised |-> "none", text |-> other])
                    = response
                => LeftOut(other) = LeftOut(decode(request.csv_file.content).text)

(***************************************************************************)
(* Properties of the order of records and errors                           *)
(***************************************************************************)
\* items is made of first elements of perRow at strictly increasing positions:
\* perRow[n] holds what the n-th data row gives (nothing, or one item)
InSourceOrder(items, perRow) ==
    \E f \in [1..Len(items) -> 1..Len(perRow)] :
        /\ \A i, j \in 1..Len(items) : i < j => f[i] < f[j]
        /\ \A i \in 1..Len(items) : perRow[f[i]] # <<>> /\ items[i] = perRow[f[i]][1]

\* C22: records and errors each preserve source order: the records returned
\* are records of data rows that succeed, taken at increasing positions of the
\* file, and the row errors returned are the field messages of data rows that
\* fail, taken at increasing positions of the file.
C22_SourceOrder ==
    LET src == SourceRows
        alone == [n \in 1..(Len(src) - 1) |-> Alone(src, n)]
    IN  (Called /\ ~StructuralFault(src)) =>
            /\ InSourceOrder(outcome.records, [n \in 1..Len(alone) |-> alone[n].records])
            /\ InSourceOrder([i \in 1..Len(outcome.errors) |-> outcome.errors[i].msgs],
                             [n \in 1..Len(alone) |->
                                 [i \in 1..Len(alone[n].errors) |-> alone[n].errors[i].msgs]])

\* two data rows that succeed, with a failing row between them, gave two
\* different records and the error of row 3
C22_Witness ==
    /\ Called /\ outcome.raised = "none"
    /\ Len(SourceRows) = 4
    /\ Len(outcome.records) = 2
    /\ outcome.records[1] # outcome.records[2]
    /\ Len(outcome.errors) = 1
    /\ outcome.errors[1].row = 3

(***************************************************************************)
(* Properties of the date of a row                                         *)
(***************************************************************************)
\* the three notations: their separator and the places of year, month, day
NotationOf(format) ==
    IF format = <<"%", "Y", "-", "%", "m", "-", "%", "d">>
    THEN [sep |-> "-", y |-> 1, m |-> 2, d |-> 3]
    ELSE IF format = <<"%", "d", "/", "%", "m", "/", "%", "Y">>
    THEN [sep |-> "/", y |-> 3, m |-> 2, d |-> 1]
    ELSE [sep |-> "/", y |-> 3, m |-> 1, d |-> 2]
\* a date written in a notation: three numbers between separators, a year of
\* four digits, a month and a day of one or two digits that the calendar has
ReadAs(t, nt) ==
    LET parts == SplitOn(t, nt.sep)
        number(p) == p # <<>> /\ \A i \in 1..Len(p) : p[i] \in DigitSet
        val(p) == DigitsValue(p, Len(p))
        leap(y) == y % 4 = 0 /\ (y % 100 # 0 \/ y % 400 = 0)
        days(y, m) == IF m = 2 THEN (IF leap(y) THEN 29 ELSE 28)
                      ELSE IF m \in {4, 6, 9, 11} THEN 30 ELSE 31
    IN  IF /\ Len(parts) = 3
           /\ \A i \in 1..3 : number(parts[i])
           /\ Len(parts[nt.y]) = 4 /\ Len(parts[nt.m]) <= 2 /\ Len(parts[nt.d]) <= 2
           /\ val(parts[nt.y]) >= 1
           /\ val(parts[nt.m]) \in 1..12
           /\ val(parts[nt.d]) \in 1..days(val(parts[nt.y]), val(parts[nt.m]))
        THEN [ok |-> TRUE,
              date |-> <<val(parts[nt.y]), val(parts[nt.m]), val(parts[nt.d])>>]
        ELSE [ok |-> FALSE, date |-> <<0, 0, 0>>]
\* the notations of the mode: the profile's own in profile mode, the three
\* common ones in legacy mode, in the order they are tried
Notations ==
    IF LegacyMode
    THEN << <<"%", "Y", "-", "%", "m", "-", "%", "d">>, <<"%", "d", "/", "%", "m", "/", "%", "Y">>,
            <<"%", "m", "/", "%", "d", "/", "%", "Y">> >>
    ELSE <<built.date_format>>
ReadBy(t) == {n \in 1..Len(Notations) : ReadAs(t, NotationOf(Notations[n])).ok}
FirstReading(t) ==
    ReadAs(t, NotationOf(Notations[CHOOSE n \in ReadBy(t) : \A m \in ReadBy(t) : n <= m])).date

\* C23: in profile mode a date cell is read in the profile's notation only, in
\* legacy mode in the first of year-month-day, day/month/year, month/day/year
\* that reads it.  A row whose trimmed date cell no notation of the mode reads
\* (a blank one included) is rejected with "invalid date format" and gives no
\* record; any other row is not rejected for its date, and its record carries
\* the date of the first notation that reads the cell.
C23_DateNotations ==
    LET src == SourceRows
        rows == 1..(Len(src) - 1)
        unread == {k \in rows : \E c \in FieldCells(src, k, "date") : ReadBy(PyStrip(c)) = {}}
    IN  (Called /\ ~StructuralFault(src)) =>
            /\ \A k \in unread :
                  /\ Alone(src, k).records = <<>>
                  /\ RejectedWith(Alone(src, k), "invalid date format") # {}
            /\ \A k \in rows \ unread : \A c \in FieldCells(src, k, "date") :
                  /\ RejectedWith(Alone(src, k), "invalid date format") = {}
                  /\ Alone(src, k).records # <<>> =>
                        Alone(src, k).records[1].date = FirstReading(PyStrip(c))
            /\ Cardinality(RejectedWith(outcome, "invalid date format")) = Cardinality(unread)

(***************************************************************************)
(* Properties of the required text fields                                  *)
(***************************************************************************)
\* the data rows of src with a cell of the field f that is empty once trimmed
BlankRows(src, f) ==
    {k \in 1..(Len(src) - 1) : \E c \in FieldCells(src, k, f) : PyStrip(c) = <<>>}

\* C24: a blank item_name or post_code cell is an error of its row and not of
\* the file: when the header or mapping is complete the call returns, every
\* error is a "Row <n>:" error, every data row is either a record or a row
\* error, a row with a blank item_name or post_code cell is rejected with
\* "item_name is required" or "post_code is required", and every record has a
\* non-empty item_name and post_code.
C24_BlankTextIsRowError ==
    LET src == SourceRows
    IN  (Called /\ ~StructuralFault(src)) =>
            /\ outcome.raised = "none"
            /\ Len(RowErrorsOf(outcome)) = Len(outcome.errors)
            /\ Len(outcome.records) + Len(outcome.errors) = Len(src) - 1
            /\ \A i \in 1..Len(outcome.records) : \A f \in {"item_name", "post_code"} :
                  /\ f \in DOMAIN outcome.records[i]
                  /\ PyStrip(outcome.records[i][f]) # <<>>
            /\ \A f \in {"item_name", "post_code"} :
                  /\ \A k \in BlankRows(src, f) :
                        /\ Alone(src, k).records = <<>>
                        /\ RejectedWith(Alone(src, k), f \o " is required") # {}
                  /\ Cardinality(RejectedWith(outcome, f \o " is required"))
                        = Cardinality(BlankRows(src, f))

(***************************************************************************)
(* Properties of rows narrower than the mapping                            *)
(***************************************************************************)
\* the items of the profile's mapping whose column the row does not have
BeyondRow(row) ==
    {m \in 1..Len(built.field_mappings) : PyInt(built.field_mappings[m].key).val >= Len(row)}
\* the field messages a cell of the field f can get
MessagesAbout(f) ==
    {"invalid date format" : x \in {f} \cap {"date"}}
        \cup {f \o " is required", "invalid " \o f, f \o " must be non-negative"}
ColumnMessage(m) ==
    "Column " \o ToString(PyInt(built.field_mappings[m].key).val) \o " out of range"

\* C25: in profile mode, once the header check has passed, a data row that
\* lacks the column of some mapping items is a row error and never a record;
\* its error holds "Column <index> out of range" once for each such item and
\* no message about the fields of those items, which are skipped; a row that
\* has every mapped column gets no such message; and every record holds every
\* required field.
C25_ColumnOutOfRange ==
    LET src == SourceRows
        errorOf(k) == {i \in 1..Len(outcome.errors) : outcome.errors[i].row = k + 1}
        msgs(k) == outcome.errors[CHOOSE i \in errorOf(k) : TRUE].msgs
    IN  (Called /\ ProfileMode /\ ~StructuralFault(src)) =>
            /\ outcome.raised = "none"
            /\ \A k \in 1..(Len(src) - 1) :
                  IF BeyondRow(src[k + 1]) # {}
                  THEN /\ Alone(src, k).records = <<>>
                       /\ Cardinality(errorOf(k)) = 1
                       /\ \A m \in BeyondRow(src[k + 1]) :
                             /\ Cardinality({j \in 1..Len(msgs(k)) : msgs(k)[j] = ColumnMessage(m)})
                                    = 1
                             /\ \A j \in 1..Len(msgs(k)) :
                                   msgs(k)[j] \notin MessagesAbout(built.field_mappings[m].field)
                  ELSE \A i \in errorOf(k) : \A m \in 1..Len(built.field_mappings) :
                           ColumnMessage(m) \notin Range(outcome.errors[i].msgs)
            /\ \A i \in 1..Len(outcome.records) :
                  SpecRequiredFields \subseteq DOMAIN outcome.records[i]

(***************************************************************************)
(* Properties of the error of a row                                        *)
(***************************************************************************)
\* a row as wide as the header of src that every field of which is valid
\* whatever the mode: its date is one the mode reads
ValidUnder(src) ==
    [i \in 1..Len(src[1]) |->
        IF i \in FieldColumns(src, "date")
        THEN CHOOSE c \in {LongRow[1], <<"1", "5", "/", "0", "1", "/", "2", "0", "2", "4">>,
                           <<"0", "1", "/", "1", "5", "/", "2", "0", "2", "4">>} : ReadBy(c) # {}
        ELSE LongRow[i]]
\* the field messages of the cell in column i of the k-th data row: those of
\* the row that is valid but for this cell
CellMessages(src, k, i) ==
    LET out == parse(parsers[1],
                     FileText(<<src[1], [j \in 1..Len(src[1]) |->
                                         IF j = i THEN src[k + 1][i] ELSE ValidUnder(src)[j]]>>,
                              SourceDelimiter))
    IN  IF out.errors = <<>> THEN <<>> ELSE out.errors[1].msgs
\* the columns in the order their fields are coerced: the order of the
\* mapping in profile mode, the order of the required fields in legacy mode
CoercedColumns(src) ==
    IF LegacyMode
    THEN [n \in 1..7 |->
             CHOOSE i \in FieldColumns(src,
                 <<"date", "item_name", "quantity", "unit_price", "total_price", "shipping_cost",
                   "post_code">>[n]) : TRUE]
    ELSE [m \in 1..Len(built.field_mappings) |-> PyInt(built.field_mappings[m].key).val + 1]
\* the field messages of the k-th data row, cell after cell
RowMessages(src, k) ==
    Concat([n \in 1..Len(CoercedColumns(src)) |->
               IF CoercedColumns(src)[n] <= Len(src[k + 1])
               THEN CellMessages(src, k, CoercedColumns(src)[n])
               ELSE IF ProfileMode
               THEN <<"Column " \o ToString(CoercedColumns(src)[n] - 1) \o " out of range">>
               ELSE <<>>])

\* the messages of the data rows that have a failing cell, row after row
FailedRows(src) ==
    SelectSeq([k \in 1..(Len(src) - 1) |-> RowMessages(src, k)], LAMBDA m : m # <<>>)

\* C26: field errors are accumulated per row: when the header or mapping is
\* complete, the entries of errors are those of the data rows with a failing
\* cell, one entry per such row; the entry is "Row <n>: "
\* followed by the messages of all the failing cells of the row, in the order
\* the fields are coerced, joined with "; ".
C26_ErrorsAccumulate ==
    LET failed == FailedRows(SourceRows)
    IN  (Called /\ ~StructuralFault(SourceRows)) =>
            /\ Len(outcome.errors) = Len(failed)
            /\ \A i \in 1..Len(outcome.errors) :
                  /\ outcome.errors[i].msgs = failed[i]
                  /\ outcome.errors[i].text =
                         "Row " \o ToString(outcome.errors[i].row) \o ": "
                             \o JoinStr(failed[i], "; ")

(***************************************************************************)
(* Properties of a validated profile in the parser                         *)
(***************************************************************************)
\* the import of a file with the candidate as the parser's profile
SampleUpload == FileText(<<HeaderFull, ValidRow>>, ",")
ImportWith(c) ==
    parse([profile |-> Profile(<<",">>, DATE_FORMATS[1], c.items)], SampleUpload)
MissingMappingErrors(out) ==
    {i \in 1..Len(out.errors) : out.errors[i].kind = "missing_mappings"}

\* C27: validation and the parser agree on the required fields: a parser whose
\* profile clean() has accepted never aborts a file with "Missing required
\* field mappings".
C27_ValidatedPassesPreCheck ==
    verdict.state = "valid" => MissingMappingErrors(ImportWith(candidate)) = {}

(***************************************************************************)
(* The admin site: a new upload saved                                      *)
(***************************************************************************)
MaxUploads == 1

\* a header whose titles are not the field names, for profiles that map the
\* columns by position
TitledHeader == [i \in 1..7 |-> <<"c", "o", "l">>]
\* rows whose cells parse() accepts and the record tables may refuse: a price
\* of thirteen digits once written with two decimal places, a price that is
\* infinite, and a currency of four characters
WidePriceRow == [ValidRow EXCEPT ![5] = <<"1", "E", "1", "0">>]
InfinitePriceRow == [ValidRow EXCEPT ![4] = <<"I", "n", "f", "i", "n", "i", "t", "y">>]
LongCurrencyRow == Append(ValidRow, <<"E", "U", "R", "O">>)
UploadTexts ==
    { FileText(<<HeaderFull, ValidRow>>, ","),
      FileText(<<TitledHeader, ValidRow, TwoErrorsRow>>, ","),
      FileText(<<HeaderFull, ShortRow>>, ","),
      FileText(<<Append(HeaderFull, HeaderCells.currency),
                 [LongRow EXCEPT ![1] = Cells.date_dmy]>>, ";"),
      FileText(<<HeaderFull, ValidRow, WidePriceRow>>, ","),
      FileText(<<HeaderFull, ValidRow, InfinitePriceRow, TwoErrorsRow>>, ","),
      FileText(<<HeaderFull, NegativePriceRow>>, ","),
      FileText(<<Append(HeaderFull, HeaderCells.currency), LongRow, LongCurrencyRow>>, ","),
      CrLfFile, StrayCrFile }
\* the files uploaded, as bytes: the texts above, the first of them also after
\* a byte order mark, and two files that are not UTF-8
UploadFiles ==
    {encode(text) : text \in UploadTexts} \cup
    { BOM_UTF8 \o encode(FileText(<<HeaderFull, ValidRow>>, ",")),
      <<255, 254>> \o encode(FileText(<<HeaderFull, ValidRow>>, ",")),
      Latin1Sample }

\* form.cleaned_data["format_profile"]: the posted profile when the form has
\* such a field, None (0) when it has not
CleanedProfile(posted) ==
    IF \E i \in 1..Len(UploadFormFields) : UploadFormFields[i].name = "format_profile"
    THEN posted ELSE 0

\* CSVUploadAdmin._process_csv to the call of parse(): the parser is built
\* without a profile, the bytes of the file are decoded, and parse() is called
\* if they are UTF-8
_process_csv(bytes) ==
    LET parser == [profile |-> NoProfile]
        file_text == decode(bytes)
    IN  [parser |-> parser, decoded |-> file_text,
         result |-> IF file_text.raised # "none" THEN NotCalled
                    ELSE parse(parser, file_text.text)]

\* DecimalField(max_digits=..., decimal_places=2) of BaseRecord
decimal_places == 2

\* The number of digits of a finite Decimal once written with decimal_places
\* places, value.quantize(Decimal(1).scaleb(-decimal_places)), rounded half to
\* even: what a DecimalField compares with max_digits when the row is saved.
\* (A coefficient here is below 2^31, so dropping ten digits or more leaves 0.)
QuantizedDigits(value) ==
    LET drop == 0 - value.exp - decimal_places
        q == value.coef \div 10^drop
        r == value.coef % 10^drop
        half == 5 * 10^(drop - 1)
    IN  IF value.coef = 0 THEN 1
        ELSE IF drop <= 0 THEN Len(Digits(value.coef)) - drop
        ELSE IF drop >= 10 THEN 1
        ELSE Len(Digits(IF r > half \/ (r = half /\ q % 2 = 1) THEN q + 1 ELSE q))

\* What the source does not fix about the site it runs on: whether a NaN and
\* an infinite Decimal are stored (an infinite one only where NaN is: it is
\* then written as NaN) or refused when the row is saved, and whether the
\* database refuses a text longer than the field's max_length (SQLite does
\* not, PostgreSQL does).
Builds ==
    {b \in [nan_stored : BOOLEAN, infinity_stored : BOOLEAN, length_checked : BOOLEAN] :
        b.infinity_stored => b.nan_stored}

\* model_class.objects.create(**record_data) on the build b: "none" when the
\* row is inserted, else what makes the call raise.  The fields are those of
\* BaseRecord: create() accepts them as keyword arguments, four of them have
\* neither a default nor an empty string to fall back on, and the decimal and
\* text fields declare their limits.  Model.__init__ raises TypeError for a
\* keyword that is no field; the INSERT fails for a field left None that is
\* NOT NULL, for a negative PositiveIntegerField, for a decimal of more than
\* max_digits digits and for what the build refuses (the exception of a
\* refused decimal is InvalidOperation, ValidationError or DataError, by the
\* build).
create(b, record_data) ==
    LET max_digits == [unit_price |-> 12, total_price |-> 12, shipping_cost |-> 10]
        max_length == [item_name |-> 255, post_code |-> 20, currency |-> 3]
        given == DOMAIN record_data
        decimals == given \cap DOMAIN max_digits
        texts == given \cap DOMAIN max_length
    IN  IF ~(given \subseteq {"date", "quantity"} \cup DOMAIN max_digits \cup DOMAIN max_length)
        THEN "TypeError"
        ELSE IF ~({"date", "quantity", "unit_price", "total_price"} \subseteq given)
        THEN "IntegrityError"
        ELSE IF record_data.quantity < 0 THEN "IntegrityError"
        ELSE IF \E f \in decimals :
                   \/ record_data[f].kind = "NaN" /\ ~b.nan_stored
                   \/ record_data[f].kind = "Infinity" /\ ~b.infinity_stored
                   \/ /\ record_data[f].kind = "finite"
                      /\ QuantizedDigits(record_data[f]) > max_digits[f]
             THEN "decimal refused"
        ELSE IF b.length_checked /\ \E f \in texts : Len(record_data[f]) > max_length[f]
             THEN "DataError"
        ELSE "none"

\* created = 0; for record_data in records:
\*     model_class.objects.create(**record_data); created += 1
\* rows is the table of model_class; the loop ends at the first create() that
\* raises
RECURSIVE CreateAll(_, _, _, _)
CreateAll(b, records, created, rows) ==
    IF created = Len(records) THEN [raised |-> "none", created |-> created, rows |-> rows]
    ELSE IF create(b, records[created + 1]) # "none"
    THEN [raised |-> create(b, records[created + 1]), created |-> created, rows |-> rows]
    ELSE CreateAll(b, records, created + 1, Append(rows, records[created + 1]))

\* obj.save() of the upload and self.message_user(request, text, level)
UploadSaved(db, record_type, rows_imported, errors, level, text) ==
    [response |-> [status |-> 302, level |-> level, message |-> text],
     stored |-> [db EXCEPT !.uploads = Append(@, [record_type |-> record_type,
                                                  rows_imported |-> rows_imported,
                                                  errors |-> errors])]]

\* _process_csv from the decoding on, on the build b: what the admin site
\* answers and the database afterwards.  When the bytes are not UTF-8 the
\* upload is saved with the message as its errors and rows_imported at its
\* default; else the records of parse() are created one by one in the table
\* of SalesRecord or PurchaseRecord, the upload is saved with their count and
\* the errors of parse(), and the message is chosen by whether there are
\* errors.  An exception that leaves save_model is answered with 500, and the
\* transaction the add view runs in (ModelAdmin.changeform_view) is rolled
\* back, so that neither the upload nor a record of it stays in the database.
Imported(b, record_type, decoded, out) ==
    LET done == CreateAll(b, out.records, 0, stored[record_type])
    IN  IF decoded.raised # "none"
        THEN UploadSaved(stored, record_type, 0,
                         "File encoding error. Please upload a UTF-8 encoded CSV.", "ERROR",
                         "File encoding error. Please upload a UTF-8 encoded CSV.")
        ELSE IF out.raised # "none"
        THEN [response |-> [status |-> 500, raised |-> out.raised], stored |-> stored]
        ELSE IF done.raised # "none"
        THEN [response |-> [status |-> 500, raised |-> done.raised], stored |-> stored]
        ELSE UploadSaved([stored EXCEPT ![record_type] = done.rows], record_type, done.created,
                         JoinStr([i \in 1..Len(out.errors) |-> out.errors[i].text], "\n"),
                         IF out.errors # <<>> THEN "WARNING" ELSE "SUCCESS",
                         IF out.errors # <<>>
                         THEN "Imported " \o ToString(done.created) \o " records with "
                                  \o ToString(Len(out.errors))
                                  \o " error(s). Check the upload details for more info."
                         ELSE "Successfully imported " \o ToString(done.created) \o " "
                                  \o record_type \o " records.")

\* the end of the request: the parser _process_csv built, the call of parse()
\* it made if the bytes were UTF-8, the answer and the database
Answered(run, done) ==
    /\ parsers' = [i \in ParserIds |-> run.parser]
    /\ built' = run.parser.profile
    /\ IF run.decoded.raised # "none"
       THEN UNCHANGED <<file_content, outcome, calls>>
       ELSE /\ file_content' = run.decoded.text
            /\ outcome' = run.result
            /\ calls' = calls + 1
    /\ response' = done.response
    /\ stored' = done.stored

\* POST of the add form of CSVUpload: CSVUploadForm validated, then
\* CSVUploadAdmin.save_model with change = False.  posted is the primary key
\* chosen for format_profile, 0 when none is chosen.  save_model first saves
\* the upload as posted (super().save_model) and then runs _process_csv, which
\* saves it again: the row of the upload is written here as _process_csv
\* leaves it.  Uploads do not follow one another, and no upload follows one
\* that was parsed.
SaveUpload ==
    /\ calls = 0
    /\ request.op # "save_upload"
    /\ Len(stored.uploads) < MaxUploads
    /\ \E bytes \in UploadFiles :
          LET run == _process_csv(bytes)
          IN  \E record_type \in {"sales", "purchase"}, posted \in 0..Len(table), b \in Builds :
                 /\ request' = [op |-> "save_upload", record_type |-> record_type,
                                posted |-> posted,
                                format_profile |-> CleanedProfile(posted), file |-> bytes]
                 /\ Answered(run, Imported(b, record_type, run.decoded, run.result))
    /\ UNCHANGED <<table, pending>>
    /\ UNCHANGED cleanVars

NextUpload == CreateProfile \/ SaveUpload

SpecUpload == InitAdmin /\ [][NextUpload]_vars

(***************************************************************************)
(* Properties of a saved upload                                            *)
(***************************************************************************)
\* the import the selected profile describes
ImportUnder(row, text) ==
    parse([profile |-> Profile(row.delimiter, row.date_format, row.field_mappings)], text)

\* C28: a new upload whose file decoded and was handed to the parser, saved
\* with a format profile selected (an active profile of the upload's record
\* type), is parsed in profile mode with that profile's
\* delimiter, date_format and field_mappings; legacy mode is used only when no
\* profile was selected; rows_imported is the number of records of the parse.
C28_UploadUsesSelectedProfile ==
    (request.op = "save_upload" /\ Called) =>
        /\ (/\ request.posted # 0
            /\ table[request.posted].is_active
            /\ table[request.posted].record_type = request.record_type)
               => outcome = ImportUnder(table[request.posted], file_content)
        /\ LegacyMode => request.posted = 0
        /\ response.status = 302 =>
              stored.uploads[Len(stored.uploads)].rows_imported = Len(outcome.records)

(***************************************************************************)
(* Properties of the preview against the import                            *)
(***************************************************************************)
\* the answer of the test-profile preview to the latest file, for the profile
\* the parser was built with
PreviewOfLatest ==
    IF Len(Delimiter(built)) # 1 THEN [status |-> 500, raised |-> "TypeError"]
    ELSE PreviewRead(built, csv_reader(file_content, Delimiter(built)[1]))
\* the rows an answer of the preview, or an outcome of parse(), has an error for
RowsWithError(errors) == {errors[i].row : i \in 1..Len(errors)}
\* the data rows of the latest file that parse() turned into records: none
\* when the file was aborted, else those without a row error
RowsImported ==
    IF outcome.raised # "none" \/ \E i \in 1..Len(outcome.errors) : outcome.errors[i].kind # "row"
    THEN {}
    ELSE (2..Len(SourceRows)) \ RowsWithError(outcome.errors)

\* C29: the preview agrees with the import: when the preview answers a file
\* with its rows, a data row is without error in the preview exactly when
\* parse() with the same profile turns it into a record; a preview without
\* errors means an import without errors and with total_parsed records.
C29_PreviewAgreesWithImport ==
    (Called /\ ProfileMode /\ PreviewOfLatest.status = 200
        /\ "errors" \in DOMAIN PreviewOfLatest) =>
        /\ (2..Len(SourceRows)) \ RowsWithError(PreviewOfLatest.errors) = RowsImported
        /\ PreviewOfLatest.errors = <<>> =>
              /\ outcome.raised = "none"
              /\ outcome.errors = <<>>
              /\ Len(outcome.records) = PreviewOfLatest.total_parsed

(***************************************************************************)
(* Properties of the order of the structural checks                        *)
(***************************************************************************)
\* the kinds of the errors of an outcome
ErrorKinds(out) == [i \in 1..Len(out.errors) |-> out.errors[i].kind]
\* the first structural fault of a file with the rows src, in the order empty
\* file, unmapped required field, mapped index outside the header
FirstFault(src) ==
    IF src = <<>> THEN "empty"
    ELSE IF UnmappedFields # {} THEN "missing_mappings"
    ELSE IF OffendingKeys(src) # {} THEN "index_out_of_range"
    ELSE "none"

\* C30: in profile mode the structural checks run in a fixed order before any
\* data row: a file with a structural fault returns no record and one error,
\* that of the first fault in the order empty file, missing required mapping,
\* mapped index outside the header; the outcome is that of the file cut down
\* to its header, whatever the data rows contain.
C30_StructuralOrder ==
    (Called /\ ProfileMode /\ FirstFault(SourceRows) # "none") =>
        /\ outcome.raised = "none"
        /\ outcome.records = <<>>
        /\ ErrorKinds(outcome) = <<FirstFault(SourceRows)>>
        /\ SourceRows # <<>> =>
              outcome = parse(parsers[1], FileText(<<SourceRows[1]>>, SourceDelimiter))

====
